---- MODULE Spec2Model ----
(***************************************************************************)
(* Conversation orchestration state machine of the campaign bot:           *)
(* the conversation record, the six graph nodes (router, campaign_creator, *)
(* event_creator, whatsapp_group_creator, group_status_checker,            *)
(* completion), the decision functions between them and the per-user       *)
(* persistence of the record (thread_id = user_id).                        *)
(*                                                                         *)
(* Conventions.  A key that is missing from a dict (the state dict or the  *)
(* JSON object of an oracle) is written ABSENT; a key that holds Python    *)
(* None / JSON null is written NONE.  dict.get(key, default) gives the     *)
(* default for ABSENT only, dict.get(key) gives NONE for both.  The fields *)
(* of the oracle's "parsed" object are read without default, so a missing  *)
(* one is written NONE.  JSON booleans are the strings "true" / "false" so *)
(* that they can share a field with NONE and ABSENT.  The admins list is   *)
(* wrapped: <<>> is "no list" (missing or None), <<l>> is the list l.      *)
(* An oracle answer has a kind: FAIL (the call raised), "nonjson" (text    *)
(* that json.loads rejects), "nonobject" (JSON that is not an object, such *)
(* as 123 or null) or "json" (an object with the fields shown).  The       *)
(* "parsed" value of a router answer has a shape: "object" (a JSON object, *)
(* or a missing, null or empty value, which the router reads as {}) or     *)
(* "text" (any other JSON value, on which .get raises).                    *)
(*                                                                         *)
(* A node works on the state dict it is given; what it returns is merged   *)
(* into the record and persisted when it returns.  The oracle is called    *)
(* with a blocking client, so a node runs without interruption up to its   *)
(* backend call.  The four nodes that call the Campaign Backend await it:  *)
(* the request is sent, the node is suspended, and it sets and returns its *)
(* result only when the answer arrives.  reset_user_state overwrites the   *)
(* stored record of a user at any moment, during a turn included.          *)
(***************************************************************************)
EXTENDS Integers, Sequences, FiniteSets, TLC

VARIABLES
  store,   \* user_id -> persisted record (the checkpointer, keyed by thread_id)
  now,     \* the clock read by datetime.now(timezone.utc)
  turns,   \* number of process_message invocations started so far
  pc,      \* slot -> next node of the turn in flight, or "idle"
  sid,     \* slot -> user_id of the turn in flight
  rec,     \* slot -> the state dict the turn in flight works on
  prev,    \* slot -> the state dict on entry to the last node executed
  nodes,   \* slot -> nodes executed so far in this turn, in order
  branches, \* slot -> the branch each of those nodes took
  calls,   \* slot -> Campaign Backend calls made so far in this turn
  asks,    \* slot -> oracle (LLM) calls made so far in this turn
  loaded,  \* slot -> what the turn read from the store when it started
  activated, \* user_id -> an activate_event call of this user has succeeded
  awaiting \* slot -> the oracle's answer held by the node that is suspended
           \*         in its backend call, or Nothing

vars == <<store, now, turns, pc, sid, rec, prev, nodes, branches, calls, asks, loaded, activated, awaiting>>

----------------------------------------------------------------------------
(* Bounds of the model *)

MaxTurns == 2
MaxNow == 2

----------------------------------------------------------------------------
(* Markers and fixed texts *)

NONE == "none"
ABSENT == "absent"
FAIL == "fail"

\* the answer of a backend request that has been sent and not yet answered
SENT == "sent"

\* a JSON value that is true in Python and is no string (a number, a
\* non-empty list or object), where the code expects a text
NONTEXT == "nontext"

\* no node of the slot is suspended
Nothing == [kind |-> "nothing"]

Sessions == {"u1", "u2"}
Slots == {1, 2}

RouterApology == "Ocurrio un error. Puedes repetir tu mensaje?"
RouterNonJsonText == "Disculpa, no entendi completamente tu mensaje."
RouterOutOfContextDefault == "Disculpa, soy un asistente especializado"
RouterDefaultText == "Como puedo ayudarte?"
GreetingText == "Hola! Soy tu asistente para crear campanas con eventos y grupos de WhatsApp."
MissingFieldsText == "Faltan algunos datos. Te ayudo a completarlos."
NoValidEventText == "No se puede crear el grupo porque no existe un evento valido."
FutureDateText == "La fecha del evento debe ser futura."
NewCampaignText == "Nueva campana! Cual sera el nombre?"
DefaultTimezone == "America/Bogota"

ConversationSteps ==
  {"greeting", "campaign_name", "event_name", "event_date", "timezone",
   "admins", "context", "confirmation"}

----------------------------------------------------------------------------
(* ConversationState *)

\* the state of a thread nothing has been written to: no key is set
EmptyRec ==
  [messages |-> <<>>, user_message |-> ABSENT,
   current_step |-> ABSENT, processing_status |-> ABSENT,
   campaign_name |-> ABSENT, event_name |-> ABSENT, event_date |-> ABSENT,
   admins |-> <<>>, context |-> ABSENT, timezone |-> ABSENT,
   campaign_id |-> ABSENT, event_id |-> ABSENT, pending_event_id |-> ABSENT,
   whatsapp_group_url |-> ABSENT, came_from_status_check |-> ABSENT,
   bot_response |-> ABSENT]

\* dict.get(key, default): the default for a missing key only
Get(d, k, default) == IF d[k] = ABSENT THEN default ELSE d[k]

\* dict.get(key): None for a missing key
GetOpt(d, k) == Get(d, k, NONE)

\* a value that is missing or None
Unset(v) == v = NONE \/ v = ABSENT

\* truth value of llm_response.get(key, True) for a boolean key
FlagDefaultTrue(v) == v = "true" \/ v = ABSENT

\* truth value of an optional string
Truthy(v) == v # NONE /\ v # ABSENT /\ v # ""

\* truth value of the (wrapped) admins list
TruthyList(w) == w # <<>> /\ w[1] # <<>>

\* str.strip() on the texts the model uses
Strip(s) ==
  CASE s = " " -> ""
    [] s = " Verano " -> "Verano"
    [] s = " e9 " -> "e9"
    [] OTHER -> s

\* re.findall(r"\+?\d{7,15}", user_message) on the texts the model uses
FindPhones(s) ==
  CASE s = "573103435489 y 573208765432" -> <<"573103435489", "573208765432">>
    [] s = "+573103435489" -> <<"+573103435489">>
    [] OTHER -> <<>>

\* [str(a).strip() for a in admins_parsed]
StripAll(l) == [i \in 1..Len(l) |-> Strip(l[i])]

----------------------------------------------------------------------------
(* Event dates.  A date text is read by the table DateText, which gives    *)
(* the format that accepts it, its wall-clock value and its UTC offset.    *)
(* Instants are counted in units of five hours from 2030-01-01T00:00Z.     *)

DateText(s) ==
  CASE s = "2000-01-01" ->
         [fmt |-> "iso", wall |-> 0 - 100, aware |-> FALSE, off |-> 0]
    [] s = "2030-01-01 10:00" ->
         [fmt |-> "iso", wall |-> 2, aware |-> FALSE, off |-> 0]
    [] s = "2030-01-01T10:00:00-05:00" ->
         [fmt |-> "iso", wall |-> 2, aware |-> TRUE, off |-> 0 - 1]
    [] s = "2030-01-01T10:00:00+05:00" ->
         [fmt |-> "iso", wall |-> 2, aware |-> TRUE, off |-> 1]
    [] s = "01/01/2030 15:00" ->
         [fmt |-> "%d/%m/%Y %H:%M", wall |-> 3, aware |-> FALSE, off |-> 0]
    [] OTHER ->
         [fmt |-> NONE, wall |-> 0, aware |-> FALSE, off |-> 0]

StrptimeFormats == {"%Y-%m-%d %H:%M", "%Y-%m-%d", "%d/%m/%Y %H:%M", "%d/%m/%Y"}

\* datetime.fromisoformat, then the strptime loop
Parseable(s) == DateText(s).fmt = "iso" \/ DateText(s).fmt \in StrptimeFormats

\* replace(tzinfo=utc) for a naive value, astimezone(utc) for an aware one
ToUtc(d) == IF d.aware THEN d.wall - d.off ELSE d.wall

NoCall == <<>>
BackendCall(op, id, date, tz, at, ret) ==
  [op |-> op, id |-> id, date |-> date, tz |-> tz, at |-> at, ret |-> ret]

\* create_event_for_campaign comparing with < instead of <=
create_event_for_campaign_strict(campaign_id, name, event_date, administrators, context, tz_name, clock, b) ==
  IF event_date = NONE
    THEN [outcome |-> "exception", id |-> NONE, calls |-> NoCall]
  ELSE IF ~Parseable(event_date)
    THEN [outcome |-> "invalid_format", id |-> NONE, calls |-> NoCall]
  ELSE IF ToUtc(DateText(event_date)) < clock
    THEN [outcome |-> "not_future", id |-> NONE, calls |-> NoCall]
  ELSE IF name = NONE \/ campaign_id = NONE \/ administrators = <<>> \/ tz_name = NONTEXT
    THEN [outcome |-> "exception", id |-> NONE, calls |-> NoCall]
  ELSE IF b = FAIL
    THEN [outcome |-> "exception", id |-> NONE,
          calls |-> <<BackendCall("create_event", campaign_id,
                                  ToUtc(DateText(event_date)), tz_name, clock, FAIL)>>]
  ELSE [outcome |-> "ok", id |-> b,
        calls |-> <<BackendCall("create_event", campaign_id,
                                ToUtc(DateText(event_date)), tz_name, clock, b)>>]

\* LukiaService.create_event_for_campaign: b is what the backend answers
\* (an event id, NONE for an event without id, FAIL for an API error).
\* The date is read and compared with the clock first; then EventInput is
\* built, which raises a validation error, before any request, when the
\* name, the campaign id or the administrators are None or the timezone is
\* no string.
create_event_for_campaign(campaign_id, name, event_date, administrators, context, tz_name, clock, b) ==
  IF event_date = NONE
    THEN [outcome |-> "exception", id |-> NONE, calls |-> NoCall]
  ELSE IF ~Parseable(event_date)
    THEN [outcome |-> "invalid_format", id |-> NONE, calls |-> NoCall]
  ELSE IF ToUtc(DateText(event_date)) <= clock
    THEN [outcome |-> "not_future", id |-> NONE, calls |-> NoCall]
  ELSE IF name = NONE \/ campaign_id = NONE \/ administrators = <<>> \/ tz_name = NONTEXT
    THEN [outcome |-> "exception", id |-> NONE, calls |-> NoCall]
  ELSE IF b = FAIL
    THEN [outcome |-> "exception", id |-> NONE,
          calls |-> <<BackendCall("create_event", campaign_id,
                                  ToUtc(DateText(event_date)), tz_name, clock, FAIL)>>]
  ELSE [outcome |-> "ok", id |-> b,
        calls |-> <<BackendCall("create_event", campaign_id,
                                ToUtc(DateText(event_date)), tz_name, clock, b)>>]

\* LukiaService.create_campaign_with_defaults
create_campaign_with_defaults(name, clock, b) ==
  IF name = NONE
    THEN [outcome |-> "exception", id |-> NONE, calls |-> NoCall]
  ELSE IF b = FAIL
    THEN [outcome |-> "exception", id |-> NONE,
          calls |-> <<BackendCall("create_campaign", name, 0, NONE, clock, FAIL)>>]
  ELSE [outcome |-> "ok", id |-> b,
        calls |-> <<BackendCall("create_campaign", name, 0, NONE, clock, b)>>]

\* LukiaService.activate_event
activate_event(event_id, clock, b) ==
  [outcome |-> IF b = FAIL THEN "exception" ELSE "ok",
   calls |-> <<BackendCall("activate_event", event_id, 0, NONE, clock, b)>>]

----------------------------------------------------------------------------
(* router_node.  The branch it reports: "failed" (the oracle call raised), *)
(* "unparseable" (the text is not JSON), "raised" (the oracle answered and *)
(* the code raised afterwards: .get on an answer or a "parsed" value that  *)
(* is no object, or the log line slicing a None bot_response),             *)
(* "out_of_context", and for an in-domain message "confirmed",             *)
(* "incomplete" or "in_domain".                                            *)

RouterFallback ==
  [kind |-> "json", related |-> "false", next_step |-> "out_of_context",
   bot_response |-> RouterNonJsonText, processing_status |-> "out_of_context"]

\* the extraction of a text field taking the oracle's value only
Extracted_oracle_only(r, current_step, user_message, value, field) ==
  IF Truthy(value) THEN Strip(value) ELSE r[field]

Extracted(r, current_step, user_message, value, field) ==
  IF Truthy(value) THEN Strip(value)
  ELSE IF current_step = field /\ Strip(user_message) # "" THEN Strip(user_message)
  ELSE r[field]

ExtractedAdmins(r, current_step, user_message, value) ==
  IF TruthyList(value) THEN <<StripAll(value[1])>>
  ELSE IF current_step = "admins" /\ Strip(user_message) # ""
    THEN IF FindPhones(user_message) # <<>>
           THEN <<FindPhones(user_message)>>
           ELSE << <<Strip(user_message)>> >>
  ELSE r.admins

AllRequired(r) ==
  /\ Truthy(r.campaign_name) /\ Truthy(r.event_name) /\ Truthy(r.event_date)
  /\ Truthy(r.timezone) /\ TruthyList(r.admins) /\ Truthy(r.context)

\* lines 214-219: the step, the text and the status the oracle decided
RouterHead(r, current_step, res) ==
  [r EXCEPT
     !.current_step = Get(res, "next_step", current_step),
     !.bot_response = Get(res, "bot_response", RouterDefaultText),
     !.processing_status =
        IF res.processing_status \in {"checking_status", "out_of_context"}
          THEN res.processing_status ELSE @]

\* lines 222-225: parsed.get raises on a value that is no object
RouterParsedRaises(p) == p.shape # "object"

RouterInDomain(r, current_step, user_message, res, p) ==
  LET s0 == RouterHead(r, current_step, res)
      s1 == [s0 EXCEPT
               !.campaign_name = Extracted(r, current_step, user_message, p.campaign_name, "campaign_name"),
               !.event_name = Extracted(r, current_step, user_message, p.event_name, "event_name"),
               !.event_date = Extracted(r, current_step, user_message, p.event_date, "event_date"),
               !.timezone = Extracted(r, current_step, user_message, p.timezone, "timezone"),
               !.admins = ExtractedAdmins(r, current_step, user_message, p.admins),
               !.context = Extracted(r, current_step, user_message, p.context, "context")]
      s2 == IF p.user_confirms = NONE THEN s1
            ELSE IF p.user_confirms = "true"
              THEN IF AllRequired(s1)
                     THEN [s1 EXCEPT !.processing_status = "creating_campaign"]
                     ELSE [s1 EXCEPT !.bot_response = MissingFieldsText,
                                     !.processing_status = "idle"]
            ELSE [s1 EXCEPT !.processing_status = "idle"]
  IN IF Truthy(p.event_id) THEN [s2 EXCEPT !.event_id = Strip(p.event_id)] ELSE s2

\* line 294: the log line slices bot_response and raises when it is None
RouterLogRaises(s) == s.bot_response = NONE

\* lines 268-272: the user confirmed and every required field is filled once
\* the extraction is applied
RouterConfirmed(r, current_step, user_message, p) ==
  /\ p.user_confirms = "true"
  /\ AllRequired([r EXCEPT
        !.campaign_name = Extracted(r, current_step, user_message, p.campaign_name, "campaign_name"),
        !.event_name = Extracted(r, current_step, user_message, p.event_name, "event_name"),
        !.event_date = Extracted(r, current_step, user_message, p.event_date, "event_date"),
        !.timezone = Extracted(r, current_step, user_message, p.timezone, "timezone"),
        !.admins = ExtractedAdmins(r, current_step, user_message, p.admins),
        !.context = Extracted(r, current_step, user_message, p.context, "context")])

\* router_node applying the extraction before it looks at is_campaign_related
router_node_extracts_first(r, o) ==
  LET current_step == Get(r, "current_step", "greeting")
      user_message == Get(r, "user_message", "")
      logged == [r EXCEPT !.messages = Append(@, "router")]
      res == IF o.kind = "nonjson" THEN RouterFallback ELSE o
  IN IF o.kind = FAIL
       THEN [rec |-> [r EXCEPT !.bot_response = RouterApology],
             calls |-> NoCall, asks |-> <<"router">>, branch |-> "failed"]
     ELSE IF o.kind = "nonobject"
       THEN [rec |-> [logged EXCEPT !.bot_response = RouterApology],
             calls |-> NoCall, asks |-> <<"router">>, branch |-> "raised"]
     ELSE IF ~FlagDefaultTrue(res.related)
       THEN [rec |-> [(IF o.kind = "nonjson" THEN logged
                       ELSE RouterInDomain(logged, current_step, user_message, res, o.parsed))
                      EXCEPT
                        !.current_step = "out_of_context",
                        !.bot_response = Get(res, "bot_response", RouterOutOfContextDefault),
                        !.processing_status = "out_of_context"],
             calls |-> NoCall, asks |-> <<"router">>,
             branch |-> IF o.kind = "nonjson" THEN "unparseable" ELSE "out_of_context"]
     ELSE IF RouterParsedRaises(o.parsed)
       THEN [rec |-> [RouterHead(logged, current_step, res) EXCEPT !.bot_response = RouterApology],
             calls |-> NoCall, asks |-> <<"router">>, branch |-> "raised"]
     ELSE IF RouterLogRaises(RouterInDomain(logged, current_step, user_message, res, o.parsed))
       THEN [rec |-> [RouterInDomain(logged, current_step, user_message, res, o.parsed)
                      EXCEPT !.bot_response = RouterApology],
             calls |-> NoCall, asks |-> <<"router">>, branch |-> "raised"]
     ELSE [rec |-> RouterInDomain(logged, current_step, user_message, res, o.parsed),
           calls |-> NoCall, asks |-> <<"router">>,
           branch |-> IF RouterConfirmed(logged, current_step, user_message, o.parsed)
                        THEN "confirmed"
                      ELSE IF o.parsed.user_confirms = "true" THEN "incomplete"
                      ELSE "in_domain"]

router_node(r, o) ==
  LET current_step == Get(r, "current_step", "greeting")
      user_message == Get(r, "user_message", "")
      logged == [r EXCEPT !.messages = Append(@, "router")]
      res == IF o.kind = "nonjson" THEN RouterFallback ELSE o
  IN IF o.kind = FAIL
       THEN [rec |-> [r EXCEPT !.bot_response = RouterApology],
             calls |-> NoCall, asks |-> <<"router">>, branch |-> "failed"]
     ELSE IF o.kind = "nonobject"
       THEN [rec |-> [logged EXCEPT !.bot_response = RouterApology],
             calls |-> NoCall, asks |-> <<"router">>, branch |-> "raised"]
     ELSE IF ~FlagDefaultTrue(res.related)
       THEN [rec |-> [logged EXCEPT
                        !.current_step = "out_of_context",
                        !.bot_response = Get(res, "bot_response", RouterOutOfContextDefault),
                        !.processing_status = "out_of_context"],
             calls |-> NoCall, asks |-> <<"router">>,
             branch |-> IF o.kind = "nonjson" THEN "unparseable" ELSE "out_of_context"]
     ELSE IF RouterParsedRaises(o.parsed)
       THEN [rec |-> [RouterHead(logged, current_step, res) EXCEPT !.bot_response = RouterApology],
             calls |-> NoCall, asks |-> <<"router">>, branch |-> "raised"]
     ELSE IF RouterLogRaises(RouterInDomain(logged, current_step, user_message, res, o.parsed))
       THEN [rec |-> [RouterInDomain(logged, current_step, user_message, res, o.parsed)
                      EXCEPT !.bot_response = RouterApology],
             calls |-> NoCall, asks |-> <<"router">>, branch |-> "raised"]
     ELSE [rec |-> RouterInDomain(logged, current_step, user_message, res, o.parsed),
           calls |-> NoCall, asks |-> <<"router">>,
           branch |-> IF RouterConfirmed(logged, current_step, user_message, o.parsed)
                        THEN "confirmed"
                      ELSE IF o.parsed.user_confirms = "true" THEN "incomplete"
                      ELSE "in_domain"]

----------------------------------------------------------------------------
(* The pipeline nodes.  Each takes the state dict, the oracle's answer o   *)
(* (kind FAIL: the call raised; "nonjson": unparseable text; "nonobject":  *)
(* JSON that is no object, on which .get raises; "json": the parsed        *)
(* object) and the backend's answer b, and gives the updated dict with the *)
(* backend and oracle calls it made.                                        *)

ErrorState(r, text) ==
  [r EXCEPT !.bot_response = text, !.current_step = "error", !.processing_status = "error"]

\* the else-branch shared by the creators: adopt the oracle's verdict
Veto(r, llm, text) ==
  [r EXCEPT !.bot_response = Get(llm, "bot_response", text),
            !.current_step = Get(llm, "next_step", "error"),
            !.processing_status = Get(llm, "processing_status", "error")]

campaign_creator_node(r, o, b, clock) ==
  LET campaign_name == GetOpt(r, "campaign_name")
      logged == [r EXCEPT !.messages = Append(@, "campaign_creator")]
      result == create_campaign_with_defaults(campaign_name, clock, b)
  IN IF o.kind \in {FAIL, "nonjson"}
       THEN [rec |-> ErrorState(r, "Error tecnico"), calls |-> NoCall,
             asks |-> <<"campaign_creator">>, branch |-> "failed"]
     ELSE IF o.kind = "nonobject"
       THEN [rec |-> ErrorState(logged, "Error tecnico"), calls |-> NoCall,
             asks |-> <<"campaign_creator">>, branch |-> "failed"]
     ELSE IF FlagDefaultTrue(o.should_create)
       THEN IF result.outcome = "ok"
              THEN [rec |-> [logged EXCEPT
                               !.campaign_id = result.id,
                               !.bot_response = "Campana creada. Creando evento...",
                               !.current_step = "create_event",
                               !.processing_status = "creating_event"],
                    calls |-> result.calls, asks |-> <<"campaign_creator">>,
                    branch |-> "created"]
              ELSE [rec |-> ErrorState(logged, "Error tecnico"),
                    calls |-> result.calls, asks |-> <<"campaign_creator">>,
                    branch |-> "exception"]
     ELSE [rec |-> Veto(logged, o, "Error en validacion"), calls |-> NoCall,
           asks |-> <<"campaign_creator">>, branch |-> "vetoed"]

EventCreatorFallback ==
  [kind |-> "json", should_create |-> "false",
   bot_response |-> "No entendi la validacion. Puedes repetir?",
   next_step |-> "error", processing_status |-> "error", timezone |-> NONE]

event_creator_node(r, o, b, clock) ==
  LET event_name == GetOpt(r, "event_name")
      logged == [r EXCEPT !.messages = Append(@, "event_creator")]
      llm == IF o.kind = "nonjson" THEN EventCreatorFallback ELSE o
      timezone == IF Truthy(llm.timezone) THEN llm.timezone ELSE DefaultTimezone
      result == create_event_for_campaign(GetOpt(r, "campaign_id"), event_name,
                                          GetOpt(r, "event_date"), r.admins,
                                          GetOpt(r, "context"), timezone, clock, b)
  IN IF o.kind = FAIL
       THEN [rec |-> ErrorState(r, "Error tecnico"), calls |-> NoCall,
             asks |-> <<"event_creator">>, branch |-> "failed"]
     ELSE IF o.kind = "nonobject"
       THEN [rec |-> ErrorState(logged, "Error tecnico"), calls |-> NoCall,
             asks |-> <<"event_creator">>, branch |-> "failed"]
     ELSE IF FlagDefaultTrue(llm.should_create)
       THEN [asks |-> <<"event_creator">>, calls |-> result.calls,
             branch |-> IF result.outcome = "ok" THEN "created" ELSE result.outcome,
             rec |->
               CASE result.outcome = "invalid_format" ->
                      ErrorState(logged, "Invalid event_date format")
                 [] result.outcome = "not_future" ->
                      ErrorState(logged, FutureDateText)
                 [] result.outcome = "exception" ->
                      ErrorState(logged, "No pude crear el evento.")
                 [] OTHER ->
                      [logged EXCEPT
                         !.event_id = result.id,
                         !.bot_response = "Evento creado. Creando grupo WhatsApp...",
                         !.current_step = "create_whatsapp_group",
                         !.processing_status = "creating_group"]]
     ELSE [rec |-> Veto(logged, llm, "Error en validacion"), calls |-> NoCall,
           asks |-> <<"event_creator">>, branch |-> "vetoed"]

WhatsappFallback ==
  [kind |-> "json", should_activate |-> "true",
   bot_response |-> "Activando evento para generar grupo.",
   next_step |-> "pending_group", processing_status |-> "completed"]

\* whatsapp_group_creator_node without the check of lines 44-49
whatsapp_group_creator_node_unguarded(r, o, b, clock) ==
  LET event_id == GetOpt(r, "event_id")
      logged == [r EXCEPT !.messages = Append(@, "whatsapp_group_creator")]
      llm == IF o.kind = "nonjson" THEN WhatsappFallback ELSE o
      result == activate_event(event_id, clock, b)
  IN IF o.kind = FAIL
       THEN [rec |-> ErrorState(r, "Error creando grupo"), calls |-> NoCall,
             asks |-> <<"whatsapp_group_creator">>, branch |-> "failed"]
     ELSE IF o.kind = "nonobject"
       THEN [rec |-> ErrorState(logged, "Error creando grupo"), calls |-> NoCall,
             asks |-> <<"whatsapp_group_creator">>, branch |-> "failed"]
     ELSE IF FlagDefaultTrue(llm.should_activate) /\ Truthy(event_id)
       THEN IF result.outcome = "ok"
              THEN [rec |-> [logged EXCEPT
                               !.pending_event_id = event_id,
                               !.bot_response = Get(llm, "bot_response", "Evento activado correctamente."),
                               !.current_step = Get(llm, "next_step", "pending_group"),
                               !.processing_status = Get(llm, "processing_status", "completed")],
                    calls |-> result.calls, asks |-> <<"whatsapp_group_creator">>,
                    branch |-> "activated"]
              ELSE [rec |-> ErrorState(logged, "Error creando grupo"),
                    calls |-> result.calls, asks |-> <<"whatsapp_group_creator">>,
                    branch |-> "exception"]
     ELSE [rec |-> Veto(logged, llm, "Error en creacion de grupo"), calls |-> NoCall,
           asks |-> <<"whatsapp_group_creator">>, branch |-> "vetoed"]

whatsapp_group_creator_node(r, o, b, clock) ==
  LET event_id == GetOpt(r, "event_id")
      logged == [r EXCEPT !.messages = Append(@, "whatsapp_group_creator")]
      llm == IF o.kind = "nonjson" THEN WhatsappFallback ELSE o
      result == activate_event(event_id, clock, b)
  IN IF GetOpt(r, "processing_status") # "creating_group" \/ ~Truthy(event_id)
       THEN [rec |-> ErrorState(r, NoValidEventText), calls |-> NoCall, asks |-> <<>>,
             branch |-> "guard"]
     ELSE IF o.kind = FAIL
       THEN [rec |-> ErrorState(r, "Error creando grupo"), calls |-> NoCall,
             asks |-> <<"whatsapp_group_creator">>, branch |-> "failed"]
     ELSE IF o.kind = "nonobject"
       THEN [rec |-> ErrorState(logged, "Error creando grupo"), calls |-> NoCall,
             asks |-> <<"whatsapp_group_creator">>, branch |-> "failed"]
     ELSE IF FlagDefaultTrue(llm.should_activate) /\ Truthy(event_id)
       THEN IF result.outcome = "ok"
              THEN [rec |-> [logged EXCEPT
                               !.pending_event_id = event_id,
                               !.bot_response = Get(llm, "bot_response", "Evento activado correctamente."),
                               !.current_step = Get(llm, "next_step", "pending_group"),
                               !.processing_status = Get(llm, "processing_status", "completed")],
                    calls |-> result.calls, asks |-> <<"whatsapp_group_creator">>,
                    branch |-> "activated"]
              ELSE [rec |-> ErrorState(logged, "Error creando grupo"),
                    calls |-> result.calls, asks |-> <<"whatsapp_group_creator">>,
                    branch |-> "exception"]
     ELSE [rec |-> Veto(logged, llm, "Error en creacion de grupo"), calls |-> NoCall,
           asks |-> <<"whatsapp_group_creator">>, branch |-> "vetoed"]

----------------------------------------------------------------------------
(* group_status_checker_node *)

NoLink == "No disponible"

\* _should_check_status: d is the oracle's answer to the first question
should_check_status(d) ==
  IF d.kind = FAIL
    THEN [should_check |-> "false",
          bot_response |-> "No puedo verificar el estado en este momento.",
          next_step |-> "error", processing_status |-> "error"]
  ELSE IF d.kind = "nonjson"
    THEN [should_check |-> "true", bot_response |-> "Verificare el estado del grupo.",
          next_step |-> "wait", processing_status |-> "pending"]
  ELSE d

\* _get_group_status: g is the backend's answer (a link, "nolink" for a group
\* without link, NONE for no group, FAIL for an API error)
get_group_status(g) ==
  CASE g = FAIL -> [status_result |-> "error", group_link |-> NoLink]
    [] g = NONE -> [status_result |-> "not_found", group_link |-> NoLink]
    [] g = "nolink" -> [status_result |-> "pending", group_link |-> NoLink]
    [] OTHER -> [status_result |-> "ready", group_link |-> g]

StatusFallback(status_result) ==
  CASE status_result = "ready" ->
         [bot_response |-> "Tu grupo esta listo", current_step |-> "completed",
          processing_status |-> "completed"]
    [] status_result = "pending" ->
         [bot_response |-> "Tu grupo se esta generando.", current_step |-> "wait",
          processing_status |-> "pending"]
    [] status_result = "not_found" ->
         [bot_response |-> "No encontre un grupo para ese evento.",
          current_step |-> "error", processing_status |-> "error"]
    [] OTHER ->
         [bot_response |-> "Hubo un problema consultando el estado.",
          current_step |-> "error", processing_status |-> "error"]

\* _generate_status_response: p is the oracle's answer to the second question
generate_status_response(status_result, p) ==
  IF p.kind = FAIL
    THEN [bot_response |-> "No puedo generar una respuesta en este momento.",
          current_step |-> "error", processing_status |-> "error"]
  ELSE IF p.kind = "nonjson" THEN StatusFallback(status_result)
  ELSE p

\* the except branch of the node (lines 237-242), reached when .get is
\* called on an answer that is no object or AIMessage is given None
StatusRaised(r) ==
  [r EXCEPT !.bot_response = "No puedo consultar el estado en este momento.",
            !.current_step = "error", !.processing_status = "error",
            !.messages = Append(@, "group_status_checker")]

\* group_status_checker_node storing group_link whatever the status is
group_status_checker_node_anylink(r, d, g, p, clock) ==
  LET user_message == Get(r, "user_message", "")
      event_id == IF Truthy(r.event_id) THEN r.event_id ELSE GetOpt(r, "pending_event_id")
      decision == should_check_status(d)
      status == get_group_status(g)
      response_data == generate_status_response(status.status_result, p)
      s1 == IF status.status_result = "ready"
              THEN [r EXCEPT !.whatsapp_group_url = status.group_link,
                             !.came_from_status_check = "true"]
              ELSE [r EXCEPT !.whatsapp_group_url = status.group_link]
  IN IF d.kind = "nonobject"
       THEN [rec |-> StatusRaised(r), calls |-> NoCall, asks |-> <<"status_decision">>,
             branch |-> "failed"]
     ELSE IF FlagDefaultTrue(decision.should_check) /\ Truthy(event_id)
            /\ (p.kind = "nonobject"
                \/ Get(response_data, "bot_response", "Estado consultado.") = NONE)
       THEN [rec |-> StatusRaised(s1),
             calls |-> <<BackendCall("get_group_status", event_id, 0, NONE, clock, g)>>,
             asks |-> <<"status_decision", "status_response">>, branch |-> "failed"]
     ELSE IF FlagDefaultTrue(decision.should_check) /\ Truthy(event_id)
       THEN [rec |-> [s1 EXCEPT
                        !.bot_response = Get(response_data, "bot_response", "Estado consultado."),
                        !.current_step = Get(response_data, "current_step", "wait"),
                        !.processing_status = Get(response_data, "processing_status", "pending"),
                        !.messages = Append(@, "group_status_checker")],
             calls |-> <<BackendCall("get_group_status", event_id, 0, NONE, clock, g)>>,
             asks |-> <<"status_decision", "status_response">>,
             branch |-> status.status_result]
     ELSE IF Get(decision, "bot_response", "Para consultar el estado, necesito el ID del evento.") = NONE
       THEN [rec |-> StatusRaised(r), calls |-> NoCall, asks |-> <<"status_decision">>,
             branch |-> "failed"]
     ELSE [rec |-> [r EXCEPT
                        !.bot_response = Get(decision, "bot_response", "Para consultar el estado, necesito el ID del evento."),
                        !.current_step = Get(decision, "next_step", "wait"),
                        !.processing_status = Get(decision, "processing_status", "pending"),
                        !.messages = Append(@, "group_status_checker")],
             calls |-> NoCall, asks |-> <<"status_decision">>, branch |-> "skipped"]

group_status_checker_node(r, d, g, p, clock) ==
  LET user_message == Get(r, "user_message", "")
      event_id == IF Truthy(r.event_id) THEN r.event_id ELSE GetOpt(r, "pending_event_id")
      decision == should_check_status(d)
      status == get_group_status(g)
      response_data == generate_status_response(status.status_result, p)
      s1 == IF status.status_result = "ready"
              THEN [r EXCEPT !.whatsapp_group_url = status.group_link,
                             !.came_from_status_check = "true"]
              ELSE r
  IN IF d.kind = "nonobject"
       THEN [rec |-> StatusRaised(r), calls |-> NoCall, asks |-> <<"status_decision">>,
             branch |-> "failed"]
     ELSE IF FlagDefaultTrue(decision.should_check) /\ Truthy(event_id)
            /\ (p.kind = "nonobject"
                \/ Get(response_data, "bot_response", "Estado consultado.") = NONE)
       THEN [rec |-> StatusRaised(s1),
             calls |-> <<BackendCall("get_group_status", event_id, 0, NONE, clock, g)>>,
             asks |-> <<"status_decision", "status_response">>, branch |-> "failed"]
     ELSE IF FlagDefaultTrue(decision.should_check) /\ Truthy(event_id)
       THEN [rec |-> [s1 EXCEPT
                        !.bot_response = Get(response_data, "bot_response", "Estado consultado."),
                        !.current_step = Get(response_data, "current_step", "wait"),
                        !.processing_status = Get(response_data, "processing_status", "pending"),
                        !.messages = Append(@, "group_status_checker")],
             calls |-> <<BackendCall("get_group_status", event_id, 0, NONE, clock, g)>>,
             asks |-> <<"status_decision", "status_response">>,
             branch |-> status.status_result]
     ELSE IF Get(decision, "bot_response", "Para consultar el estado, necesito el ID del evento.") = NONE
       THEN [rec |-> StatusRaised(r), calls |-> NoCall, asks |-> <<"status_decision">>,
             branch |-> "failed"]
     ELSE [rec |-> [r EXCEPT
                        !.bot_response = Get(decision, "bot_response", "Para consultar el estado, necesito el ID del evento."),
                        !.current_step = Get(decision, "next_step", "wait"),
                        !.processing_status = Get(decision, "processing_status", "pending"),
                        !.messages = Append(@, "group_status_checker")],
             calls |-> NoCall, asks |-> <<"status_decision">>, branch |-> "skipped"]

----------------------------------------------------------------------------
(* completion_node *)

CompletionFallback ==
  [kind |-> "json", action |-> "general_response",
   bot_response |-> "Proceso completado! Te gustaria crear una nueva campana?",
   reset_state |-> "false"]

\* the keys of new_state, written over the channels of the record; a key
\* that new_state does not name keeps its value, and "messages": [] adds
\* nothing to the log
NewState(r) ==
  [r EXCEPT !.campaign_name = NONE, !.event_name = NONE, !.event_date = NONE,
            !.admins = <<>>, !.context = NONE,
            !.current_step = "campaign_name", !.user_message = "",
            !.bot_response = NewCampaignText,
            !.campaign_id = NONE, !.event_id = NONE,
            !.whatsapp_group_url = NONE, !.processing_status = "idle"]

WantsReset(llm) == llm.action = "new_campaign" \/ llm.reset_state = "true"

completion_node(r, o) ==
  LET user_message == Get(r, "user_message", "")
      logged == [r EXCEPT !.messages = Append(@, "completion")]
      llm == IF o.kind = "nonjson" THEN CompletionFallback ELSE o
  IN IF o.kind = FAIL
       THEN [rec |-> [r EXCEPT !.bot_response = "Campana completada! Crear otra? Escribe 'nueva'."],
             calls |-> NoCall, asks |-> <<"completion">>, branch |-> "failed"]
     ELSE IF o.kind = "nonobject"
       THEN [rec |-> [logged EXCEPT !.bot_response = "Campana completada! Crear otra? Escribe 'nueva'."],
             calls |-> NoCall, asks |-> <<"completion">>, branch |-> "failed"]
     ELSE IF WantsReset(llm)
       THEN [rec |-> NewState(r), calls |-> NoCall, asks |-> <<"completion">>,
             branch |-> "reset"]
     ELSE [rec |-> [logged EXCEPT !.bot_response = Get(llm, "bot_response", "Campana completada!")],
           calls |-> NoCall, asks |-> <<"completion">>, branch |-> "summary"]

----------------------------------------------------------------------------
(* Decision functions and the edges of the graph *)

router_decision(r) ==
  LET current_step == Get(r, "current_step", "greeting")
      processing_status == Get(r, "processing_status", "idle")
  IN IF current_step = "out_of_context" \/ processing_status = "out_of_context" THEN "__end__"
     ELSE IF current_step = "check_status" THEN "check_status"
     ELSE IF processing_status = "creating_campaign" THEN "create_campaign"
     ELSE IF current_step = "create_campaign" /\ processing_status = "idle" THEN "create_campaign"
     ELSE IF current_step = "pending_group" THEN "pending_group"
     ELSE IF current_step = "completed" THEN "completed"
     ELSE IF current_step = "error" THEN "error"
     ELSE "__end__"

\* event_creator_decision testing for a status name no node writes
event_creator_decision_misnamed(r) ==
  IF r.current_step = "create_whatsapp_group" /\ r.processing_status = "creating_whatsapp_group"
    THEN "create_whatsapp_group"
  ELSE "error"

\* event_creator_decision as a plain edge to the group creator
event_creator_decision_linear(r) == "create_whatsapp_group"

event_creator_decision(r) ==
  LET current_step == Get(r, "current_step", "error")
      processing_status == Get(r, "processing_status", "error")
  IN IF current_step = "create_whatsapp_group" /\ processing_status = "creating_group"
       THEN "create_whatsapp_group"
     ELSE "error"

\* whatsapp_decision with the branch for a pending group
whatsapp_decision_pending(r) ==
  LET processing_status == Get(r, "processing_status", "idle")
  IN IF processing_status = "completed" \/ processing_status = "creating" THEN "completed"
     ELSE IF processing_status = "pending" THEN "pending"
     ELSE "error"

whatsapp_decision(r) ==
  LET processing_status == Get(r, "processing_status", "idle")
  IN IF processing_status = "completed" \/ processing_status = "creating" THEN "completed"
     ELSE "error"

status_decision(r) ==
  LET processing_status == Get(r, "processing_status", "idle")
  IN IF processing_status = "completed" THEN "completed"
     ELSE IF processing_status = "error" THEN "error"
     ELSE "wait"

completion_decision(r) == "end"

END == "idle"

\* the edges of the router with the status lookup leading nowhere
RouterEdgesNoLookup(key) ==
  CASE key = "create_campaign" -> "campaign_creator"
    [] key = "completed" -> "completion"
    [] OTHER -> END

RouterEdges(key) ==
  CASE key = "create_campaign" -> "campaign_creator"
    [] key = "check_status" -> "group_status_checker"
    [] key = "pending_group" -> END
    [] key = "completed" -> "completion"
    [] key = "__end__" -> END
    [] key = "error" -> END

EventCreatorEdges(key) ==
  CASE key = "create_whatsapp_group" -> "whatsapp_group_creator"
    [] key = "error" -> END

\* the edges of the group creator with "completed" leading to the completion node
WhatsappEdgesToCompletion(key) ==
  CASE key = "completed" -> "completion"
    [] OTHER -> END

WhatsappEdges(key) ==
  CASE key = "completed" -> END
    [] key = "error" -> END

\* the edges of the status checker with "completed" leading to the completion node
StatusEdgesToCompletion(key) ==
  CASE key = "completed" -> "completion"
    [] OTHER -> END

StatusEdges(key) ==
  CASE key = "completed" -> END
    [] key = "wait" -> END
    [] key = "error" -> END

CompletionEdges(key) ==
  CASE key = "end" -> END

\* the keys of the mappings given to add_conditional_edges
RouterEdgeKeys ==
  {"create_campaign", "check_status", "pending_group", "completed", "__end__", "error"}
EventCreatorEdgeKeys == {"create_whatsapp_group", "error"}
WhatsappEdgeKeys == {"completed", "error"}
StatusEdgeKeys == {"completed", "wait", "error"}
CompletionEdgeKeys == {"end"}

\* build_campaign_graph: the node that follows node n when it returns r
NextNode(n, r) ==
  CASE n = "router" -> RouterEdges(router_decision(r))
    [] n = "campaign_creator" -> "event_creator"
    [] n = "event_creator" -> EventCreatorEdges(event_creator_decision(r))
    [] n = "whatsapp_group_creator" -> WhatsappEdges(whatsapp_decision(r))
    [] n = "group_status_checker" -> StatusEdges(status_decision(r))
    [] n = "completion" -> CompletionEdges(completion_decision(r))

----------------------------------------------------------------------------
(* What the environment can answer: the user's texts, the oracle's answers *)
(* to each node and the backend's answers to each call.                    *)

UserMessages == {"dale, adelante", "573103435489 y 573208765432"}

\* the text of a user who confirms
ConfirmingMessages == {"dale, adelante"}

DateChoices ==
  {"2000-01-01", "2030-01-01T10:00:00+05:00", "01/01/2030 15:00", "manana 8am"}

OracleSteps ==
  ConversationSteps \cup
  {"check_status", "create_event", "create_whatsapp_group", "pending_group",
   "wait", "completed", "error", "out_of_context", "create_campaign", "paso_siguiente"}

NoParsed ==
  [shape |-> "object",
   campaign_name |-> NONE, event_name |-> NONE, event_date |-> NONE,
   timezone |-> NONE, admins |-> <<>>, context |-> NONE,
   user_confirms |-> NONE, event_id |-> NONE]

\* a "parsed" that is a JSON string, number or list
TextParsed == [NoParsed EXCEPT !.shape = "text"]

AllParsed(d, confirms) ==
  [shape |-> "object", campaign_name |-> " Verano ", event_name |-> "Fiesta", event_date |-> d,
   timezone |-> "America/Lima", admins |-> << <<"573165780882">> >>,
   context |-> "Campana de verano", user_confirms |-> confirms, event_id |-> NONE]

ParsedChoices ==
  {NoParsed,
   AllParsed("01/01/2030 15:00", NONE),
   [NoParsed EXCEPT !.campaign_name = " Verano "],
   [NoParsed EXCEPT !.timezone = " "],
   [NoParsed EXCEPT !.admins = << <<>> >>],
   [NoParsed EXCEPT !.user_confirms = "true"],
   [NoParsed EXCEPT !.user_confirms = "false"],
   [NoParsed EXCEPT !.event_id = " e9 "]}
  \cup {AllParsed(d, "true") : d \in DateChoices}

\* the user confirms and the oracle extracts nothing else
ConfirmOnly == [NoParsed EXCEPT !.user_confirms = "true"]

\* the values of next_step on which router_decision branches
RoutedSteps == {"check_status", "create_campaign", "completed", "out_of_context"}

RouterAnswer(kind, related, step, text, status, parsed) ==
  [kind |-> kind, related |-> related, next_step |-> step, bot_response |-> text,
   processing_status |-> status, parsed |-> parsed]

\* answers with a JSON null where the node reads with a default
RouterNullAnswers ==
  {RouterAnswer("json", "true", NONE, "LLM", NONE, NoParsed),
   RouterAnswer("json", "true", "confirmation", NONE, "idle", NoParsed),
   RouterAnswer("json", "true", "check_status", NONE, ABSENT, NoParsed),
   RouterAnswer("json", "true", "completed", NONE, ABSENT, NoParsed),
   RouterAnswer("json", "true", "confirmation", NONE, "idle", AllParsed("01/01/2030 15:00", "true")),
   RouterAnswer("json", NONE, "confirmation", "LLM", "idle", NoParsed),
   RouterAnswer("json", "false", ABSENT, NONE, ABSENT, NoParsed)}

RouterAnswers ==
  {RouterAnswer(k, ABSENT, ABSENT, ABSENT, ABSENT, NoParsed) : k \in {FAIL, "nonjson", "nonobject"}}
  \cup RouterNullAnswers
  \cup {RouterAnswer("json", "false", "greeting", t, "idle", AllParsed("01/01/2030 15:00", "true")) :
          t \in {ABSENT, "LLM"}}
  \cup {RouterAnswer("json", "true", "confirmation", "LLM", "idle", p) : p \in ParsedChoices}
  \cup {RouterAnswer("json", "true", st, "LLM", ABSENT, NoParsed) : st \in OracleSteps}
  \cup {RouterAnswer("json", "true", st, "LLM", ABSENT, TextParsed) :
          st \in RoutedSteps \cup {"confirmation"}}
  \cup {RouterAnswer("json", "true", st, "LLM", "idle", ConfirmOnly) : st \in RoutedSteps}
  \cup {RouterAnswer("json", "true", st, t, ABSENT, [NoParsed EXCEPT !.user_confirms = "false"]) :
          st \in RoutedSteps, t \in {"LLM", NONE}}
  \cup {RouterAnswer("json", "true", st, "LLM", "checking_status", p) :
          st \in {"check_status", "completed"}, p \in {NoParsed, TextParsed}}
  \cup {RouterAnswer("json", "true", st, "LLM", ABSENT, AllParsed("01/01/2030 15:00", "true")) :
          st \in {"check_status", "out_of_context"}}
  \cup {RouterAnswer("json", "true", "check_status", "LLM", "checking_status",
                     [NoParsed EXCEPT !.event_id = " e9 "]),
        RouterAnswer("json", "true", "create_campaign", "LLM", "creating_campaign", ConfirmOnly),
        RouterAnswer("json", ABSENT, ABSENT, ABSENT, "out_of_context", NoParsed),
        RouterAnswer("json", ABSENT, ABSENT, "", "creating_campaign", NoParsed)}

\* every combination of what router_node and router_decision read in an
\* in-domain answer: the step, the text, the status and the "parsed" value
\* (the router stores the date as the oracle wrote it and does not read it)
RouterProduct ==
  LET ProductParsed ==
        {NoParsed, TextParsed,
         [NoParsed EXCEPT !.campaign_name = " Verano "],
         [NoParsed EXCEPT !.timezone = " "],
         [NoParsed EXCEPT !.admins = << <<>> >>]}
        \cup {[NoParsed EXCEPT !.user_confirms = c] : c \in {"true", "false"}}
        \cup {AllParsed("01/01/2030 15:00", c) : c \in {NONE, "true", "false"}}
        \cup {[NoParsed EXCEPT !.event_id = " e9 ", !.user_confirms = c] :
                c \in {NONE, "true", "false"}}
      ProductStatuses ==
        {ABSENT, NONE, "idle", "checking_status", "out_of_context", "creating_campaign"}
  IN {RouterAnswer(k, ABSENT, ABSENT, ABSENT, ABSENT, NoParsed) : k \in {FAIL, "nonjson", "nonobject"}}
     \cup {RouterAnswer("json", rel, st, t, "idle", p) :
             rel \in {"false", NONE}, st \in {ABSENT, "greeting"}, t \in {"LLM", NONE, ABSENT},
             p \in {NoParsed, AllParsed("01/01/2030 15:00", "true")}}
     \cup {RouterAnswer("json", rel, st, t, ps, p) :
             rel \in {"true", ABSENT}, st \in OracleSteps \cup {ABSENT, NONE},
             t \in {"LLM", NONE, ABSENT}, ps \in ProductStatuses, p \in ProductParsed}

CreatorAnswer(kind, flag, text, step, status, tz) ==
  [kind |-> kind, should_create |-> flag, bot_response |-> text, next_step |-> step,
   processing_status |-> status, timezone |-> tz]

CampaignAnswers ==
  {CreatorAnswer(k, ABSENT, ABSENT, ABSENT, ABSENT, NONE) : k \in {FAIL, "nonjson", "nonobject", "json"}}
  \cup {CreatorAnswer("json", "false", ABSENT, ABSENT, ABSENT, NONE),
        CreatorAnswer("json", "false", NONE, NONE, NONE, NONE),
        CreatorAnswer("json", NONE, "LLM", "error", "error", NONE),
        CreatorAnswer("json", "false", "LLM", "create_event", "creating_event", NONE)}

EventAnswers ==
  {CreatorAnswer(k, ABSENT, ABSENT, ABSENT, ABSENT, NONE) : k \in {FAIL, "nonjson", "nonobject", "json"}}
  \cup {CreatorAnswer("json", "true", "LLM", "create_whatsapp_group", "creating_group", "America/Lima"),
        CreatorAnswer("json", "false", NONE, NONE, NONE, NONE),
        CreatorAnswer("json", "false", ABSENT, ABSENT, ABSENT, NONE),
        CreatorAnswer("json", "false", "LLM", "create_whatsapp_group", "creating_group", NONE),
        CreatorAnswer("json", ABSENT, ABSENT, ABSENT, ABSENT, NONTEXT)}

CampaignResults == {"c1", NONE, FAIL}
EventResults == {"e1", NONE, FAIL}

WhatsappAnswer(kind, flag, text, step, status) ==
  [kind |-> kind, should_activate |-> flag, bot_response |-> text, next_step |-> step,
   processing_status |-> status]

WhatsappAnswers ==
  {WhatsappAnswer(k, ABSENT, ABSENT, ABSENT, ABSENT) : k \in {FAIL, "nonjson", "nonobject", "json"}}
  \cup {WhatsappAnswer("json", "true", "", "error", "error"),
        WhatsappAnswer("json", "true", NONE, NONE, NONE),
        WhatsappAnswer("json", NONE, NONE, NONE, NONE),
        WhatsappAnswer("json", "false", ABSENT, ABSENT, ABSENT),
        WhatsappAnswer("json", "false", "LLM", "pending_group", "completed")}

ActivationResults == {"scheduled", FAIL}

DecisionAnswer(kind, flag, text, step, status) ==
  [kind |-> kind, should_check |-> flag, bot_response |-> text, next_step |-> step,
   processing_status |-> status]

DecisionAnswers ==
  {DecisionAnswer(k, ABSENT, ABSENT, ABSENT, ABSENT) : k \in {FAIL, "nonjson", "nonobject", "json"}}
  \cup {DecisionAnswer("json", "false", ABSENT, ABSENT, ABSENT),
        DecisionAnswer("json", "false", NONE, "wait", "pending"),
        DecisionAnswer("json", NONE, "LLM", NONE, NONE),
        DecisionAnswer("json", "false", "", "completed", "completed"),
        DecisionAnswer("json", "false", "LLM", "wait", "creating_campaign")}

GroupLinks == {"https://chat.whatsapp.com/g1", "https://chat.whatsapp.com/g2"}
GroupResults == GroupLinks \cup {"nolink", NONE, FAIL}

PhrasingAnswer(kind, text, step, status) ==
  [kind |-> kind, bot_response |-> text, current_step |-> step, processing_status |-> status]

PhrasingAnswers ==
  {PhrasingAnswer(k, ABSENT, ABSENT, ABSENT) : k \in {FAIL, "nonjson", "nonobject", "json"}}
  \cup {PhrasingAnswer("json", "LLM", "completed", "completed"),
        PhrasingAnswer("json", NONE, "completed", "completed"),
        PhrasingAnswer("json", "LLM", NONE, NONE),
        PhrasingAnswer("json", "", "error", "error")}

\* the second question of the status checker, not asked yet
NotAsked == PhrasingAnswer("nonjson", ABSENT, ABSENT, ABSENT)

CompletionAnswer(kind, action, text, reset) ==
  [kind |-> kind, action |-> action, bot_response |-> text, reset_state |-> reset]

CompletionAnswers ==
  {CompletionAnswer(k, ABSENT, ABSENT, ABSENT) : k \in {FAIL, "nonjson", "nonobject", "json"}}
  \cup {CompletionAnswer("json", NONE, NONE, NONE)}
  \cup {CompletionAnswer("json", a, "LLM", "false") :
          a \in {"campaign_completed", "new_campaign", "show_summary", "general_response"}}
  \cup {CompletionAnswer("json", "show_summary", "", "true")}

----------------------------------------------------------------------------
(* The graph engine: CampaignBotStateGraph.process_message runs one turn   *)
(* of the compiled graph on the thread of the user.  The record of the     *)
(* thread is read when the turn starts, each node's result is checkpointed *)
(* under the thread id, and the turn ends when an edge leads to END.       *)

Init ==
  /\ store = [u \in Sessions |-> EmptyRec]
  /\ now = 1
  /\ turns = 0
  /\ pc = [s \in Slots |-> "idle"]
  /\ sid = [s \in Slots |-> "u1"]
  /\ rec = [s \in Slots |-> EmptyRec]
  /\ prev = [s \in Slots |-> EmptyRec]
  /\ nodes = [s \in Slots |-> <<>>]
  /\ branches = [s \in Slots |-> <<>>]
  /\ calls = [s \in Slots |-> <<>>]
  /\ asks = [s \in Slots |-> <<>>]
  /\ loaded = [s \in Slots |-> EmptyRec]
  /\ activated = [u \in Sessions |-> FALSE]
  /\ awaiting = [s \in Slots |-> Nothing]

\* process_message running every user on the thread of "u1"
BeginSharedThread(s, u, msg, t) ==
  /\ pc[s] = "idle"
  /\ turns < MaxTurns
  /\ now' = t
  /\ LET input == [store["u1"] EXCEPT !.user_message = msg,
                                      !.messages = Append(@, "human")]
     IN /\ rec' = [rec EXCEPT ![s] = input]
        /\ prev' = [prev EXCEPT ![s] = input]
        /\ store' = [store EXCEPT !["u1"] = input]
  /\ loaded' = [loaded EXCEPT ![s] = store["u1"]]
  /\ sid' = [sid EXCEPT ![s] = "u1"]
  /\ pc' = [pc EXCEPT ![s] = "router"]
  /\ nodes' = [nodes EXCEPT ![s] = <<>>]
  /\ branches' = [branches EXCEPT ![s] = <<>>]
  /\ calls' = [calls EXCEPT ![s] = <<>>]
  /\ asks' = [asks EXCEPT ![s] = <<>>]
  /\ turns' = turns + 1
  /\ UNCHANGED <<activated, awaiting>>

\* the body of process_message: read the thread of the user, apply the
\* input and start the graph at the router
ProcessMessage(s, u, msg, t) ==
  /\ now' = t
  /\ LET input == [store[u] EXCEPT !.user_message = msg,
                                   !.messages = Append(@, "human")]
     IN /\ rec' = [rec EXCEPT ![s] = input]
        /\ prev' = [prev EXCEPT ![s] = input]
        /\ store' = [store EXCEPT ![u] = input]
  /\ loaded' = [loaded EXCEPT ![s] = store[u]]
  /\ sid' = [sid EXCEPT ![s] = u]
  /\ pc' = [pc EXCEPT ![s] = "router"]
  /\ nodes' = [nodes EXCEPT ![s] = <<>>]
  /\ branches' = [branches EXCEPT ![s] = <<>>]
  /\ calls' = [calls EXCEPT ![s] = <<>>]
  /\ asks' = [asks EXCEPT ![s] = <<>>]
  /\ turns' = turns + 1
  /\ UNCHANGED <<activated, awaiting>>

\* process_message(user_message, user_id) arriving at time t: load the
\* thread, apply the input
Begin(s, u, msg, t) ==
  /\ pc[s] = "idle"
  /\ turns < MaxTurns
  /\ ProcessMessage(s, u, msg, t)

\* the keys of initial_state, written over the channels of the record; a
\* key that initial_state does not name keeps its value, and "messages": []
\* adds nothing to the log
InitialState(r) ==
  [r EXCEPT !.campaign_name = NONE, !.event_name = NONE, !.event_date = NONE,
            !.admins = <<>>, !.context = NONE,
            !.current_step = "greeting", !.user_message = "",
            !.bot_response = GreetingText,
            !.campaign_id = NONE, !.event_id = NONE,
            !.whatsapp_group_url = NONE, !.processing_status = "idle"]

\* reset_user_state(user_id): update_state writes initial_state over the
\* stored record of the thread.  The method takes no lock and looks at no
\* turn: a turn of the user that is in flight keeps the record it works on
\* and checkpoints it over the reset when its next node returns.
ResetUserState(u) ==
  /\ store' = [store EXCEPT ![u] = InitialState(store[u])]
  /\ UNCHANGED <<now, turns, pc, sid, rec, prev, nodes, branches, calls, asks,
                 loaded, activated, awaiting>>

\* the node of the slot is suspended in its backend call
Suspended(s) == awaiting[s].kind # "nothing"

\* the log of the turn without the entry the suspended node has added
Settled(log, s) == IF Suspended(s) THEN SubSeq(log, 1, Len(log) - 1) ELSE log

\* the clock the suspended node read before it sent its request
SentAt(s) == calls[s][Len(calls[s])].at

\* one superstep: node n returned res; write it, checkpoint it, follow the edge
Advance(s, n, res) ==
  /\ rec' = [rec EXCEPT ![s] = res.rec]
  /\ prev' = [prev EXCEPT ![s] = rec[s]]
  /\ store' = [store EXCEPT ![sid[s]] = res.rec]
  /\ nodes' = [nodes EXCEPT ![s] = Append(@, n)]
  /\ branches' = [branches EXCEPT ![s] = Append(@, res.branch)]
  /\ activated' = [activated EXCEPT ![sid[s]] =
                      @ \/ (n = "whatsapp_group_creator" /\ res.branch = "activated")]
  /\ calls' = [calls EXCEPT ![s] = Settled(@, s) \o res.calls]
  /\ asks' = [asks EXCEPT ![s] = Settled(@, s) \o res.asks]
  /\ awaiting' = [awaiting EXCEPT ![s] = Nothing]
  /\ pc' = [pc EXCEPT ![s] = NextNode(n, res.rec)]
  /\ UNCHANGED <<now, turns, sid, loaded>>

\* the node has asked its oracle, got the answer o and sent its backend
\* request (sent: what the node does when the request is on its way): it
\* is suspended until the backend answers, with nothing of its result set
Suspend(s, o, sent) ==
  /\ awaiting' = [awaiting EXCEPT ![s] = o]
  /\ calls' = [calls EXCEPT ![s] = @ \o sent.calls]
  /\ asks' = [asks EXCEPT ![s] = Append(@, sent.asks[1])]
  /\ UNCHANGED <<store, now, turns, pc, sid, rec, prev, nodes, branches, loaded, activated>>

\* a node with a backend call runs up to the call, or to its end when it
\* makes none
RunToAwait(s, n, o, sent) ==
  IF sent.calls # NoCall THEN Suspend(s, o, sent) ELSE Advance(s, n, sent)

RouterWith(s, Answers) ==
  /\ pc[s] = "router"
  /\ \E o \in Answers : Advance(s, "router", router_node(rec[s], o))

CampaignCreatorWith(s, Answers) ==
  /\ pc[s] = "campaign_creator"
  /\ ~Suspended(s)
  /\ \E o \in Answers :
       RunToAwait(s, "campaign_creator", o, campaign_creator_node(rec[s], o, SENT, now))

CampaignCreatorResumeWith(s, Results) ==
  /\ pc[s] = "campaign_creator"
  /\ Suspended(s)
  /\ \E b \in Results :
       Advance(s, "campaign_creator", campaign_creator_node(rec[s], awaiting[s], b, SentAt(s)))

EventCreatorWith(s, Answers) ==
  /\ pc[s] = "event_creator"
  /\ ~Suspended(s)
  /\ \E o \in Answers :
       RunToAwait(s, "event_creator", o, event_creator_node(rec[s], o, SENT, now))

EventCreatorResumeWith(s, Results) ==
  /\ pc[s] = "event_creator"
  /\ Suspended(s)
  /\ \E b \in Results :
       Advance(s, "event_creator", event_creator_node(rec[s], awaiting[s], b, SentAt(s)))

GroupActivatorWith(s, Answers) ==
  /\ pc[s] = "whatsapp_group_creator"
  /\ ~Suspended(s)
  /\ \E o \in Answers :
       RunToAwait(s, "whatsapp_group_creator", o,
                  whatsapp_group_creator_node(rec[s], o, SENT, now))

GroupActivatorResumeWith(s, Results) ==
  /\ pc[s] = "whatsapp_group_creator"
  /\ Suspended(s)
  /\ \E b \in Results :
       Advance(s, "whatsapp_group_creator",
               whatsapp_group_creator_node(rec[s], awaiting[s], b, SentAt(s)))

\* the second question of the status checker is asked after the backend
\* has answered: up to the backend call the node runs on the first answer
StatusCheckerWith(s, Answers) ==
  /\ pc[s] = "group_status_checker"
  /\ ~Suspended(s)
  /\ \E d \in Answers :
       RunToAwait(s, "group_status_checker", d,
                  group_status_checker_node(rec[s], d, SENT, NotAsked, now))

StatusCheckerResumeWith(s, Results, Answers) ==
  /\ pc[s] = "group_status_checker"
  /\ Suspended(s)
  /\ \E g \in Results, p \in Answers :
       Advance(s, "group_status_checker",
               group_status_checker_node(rec[s], awaiting[s], g, p, SentAt(s)))

CompletionWith(s, Answers) ==
  /\ pc[s] = "completion"
  /\ \E o \in Answers : Advance(s, "completion", completion_node(rec[s], o))

Router(s) == RouterWith(s, RouterAnswers)
CampaignCreator(s) == CampaignCreatorWith(s, CampaignAnswers)
CampaignCreatorResume(s) == CampaignCreatorResumeWith(s, CampaignResults)
EventCreator(s) == EventCreatorWith(s, EventAnswers)
EventCreatorResume(s) == EventCreatorResumeWith(s, EventResults)
GroupActivator(s) == GroupActivatorWith(s, WhatsappAnswers)
GroupActivatorResume(s) == GroupActivatorResumeWith(s, ActivationResults)
StatusChecker(s) == StatusCheckerWith(s, DecisionAnswers)
StatusCheckerResume(s) == StatusCheckerResumeWith(s, GroupResults, PhrasingAnswers)
Completion(s) == CompletionWith(s, CompletionAnswers)

\* the clock never goes back; it is read at most once in a turn
Clock == now..MaxNow

\* turns of one user who writes a confirmation, one after the other, and
\* resets of the user's thread at any moment
Next ==
  \/ \E msg \in ConfirmingMessages, t \in Clock : Begin(1, "u1", msg, t)
  \/ ResetUserState("u1")
  \/ Router(1)
  \/ CampaignCreator(1)
  \/ CampaignCreatorResume(1)
  \/ EventCreator(1)
  \/ EventCreatorResume(1)
  \/ GroupActivator(1)
  \/ GroupActivatorResume(1)
  \/ StatusChecker(1)
  \/ StatusCheckerResume(1)
  \/ Completion(1)

Spec == Init /\ [][Next]_vars

----------------------------------------------------------------------------
(* Two requests of the same user.  process_user_message and               *)
(* process_message are coroutines that take no lock: a second request is   *)
(* served while the first is suspended in a backend call or between two    *)
(* nodes.  The oracle answers as its prompts ask and the backend is up.    *)

PromptedRouterAnswers ==
  {RouterAnswer("json", "true", "confirmation", "LLM", "idle",
                [NoParsed EXCEPT !.campaign_name = " Verano "]),
   RouterAnswer("json", "true", "confirmation", "LLM", "idle",
                AllParsed("01/01/2030 15:00", "true")),
   RouterAnswer("json", "true", "check_status", "LLM", "checking_status",
                [NoParsed EXCEPT !.event_id = " e9 "]),
   RouterAnswer("json", "true", "completed", "LLM", ABSENT, NoParsed)}

PromptedCampaignAnswers == {CreatorAnswer("json", ABSENT, ABSENT, ABSENT, ABSENT, NONE)}

PromptedEventAnswers ==
  {CreatorAnswer("json", "true", "LLM", "create_whatsapp_group", "creating_group", "America/Lima")}

PromptedWhatsappAnswers == {WhatsappAnswer("json", ABSENT, ABSENT, ABSENT, ABSENT)}

PromptedDecisionAnswers == {DecisionAnswer("json", ABSENT, ABSENT, ABSENT, ABSENT)}

PromptedPhrasingAnswers == {PhrasingAnswer("json", "LLM", "completed", "completed")}

PromptedStatusResults == {"https://chat.whatsapp.com/g1", "nolink"}

PromptedCompletionAnswers ==
  {CompletionAnswer("json", a, "LLM", "false") : a \in {"new_campaign", "show_summary"}}

ServeRouter(s) == RouterWith(s, PromptedRouterAnswers)
ServeCampaignCreator(s) == CampaignCreatorWith(s, PromptedCampaignAnswers)
ServeCampaignCreatorResume(s) == CampaignCreatorResumeWith(s, {"c1"})
ServeEventCreator(s) == EventCreatorWith(s, PromptedEventAnswers)
ServeEventCreatorResume(s) == EventCreatorResumeWith(s, {"e1"})
ServeGroupActivator(s) == GroupActivatorWith(s, PromptedWhatsappAnswers)
ServeGroupActivatorResume(s) == GroupActivatorResumeWith(s, {"scheduled"})
ServeStatusChecker(s) == StatusCheckerWith(s, PromptedDecisionAnswers)
ServeStatusCheckerResume(s) ==
  StatusCheckerResumeWith(s, PromptedStatusResults, PromptedPhrasingAnswers)
ServeCompletion(s) == CompletionWith(s, PromptedCompletionAnswers)

\* a step of the graph of slot s with the oracles answering as prompted
ServeNode(s) ==
  \/ ServeRouter(s)
  \/ ServeCampaignCreator(s)
  \/ ServeCampaignCreatorResume(s)
  \/ ServeEventCreator(s)
  \/ ServeEventCreatorResume(s)
  \/ ServeGroupActivator(s)
  \/ ServeGroupActivatorResume(s)
  \/ ServeStatusChecker(s)
  \/ ServeStatusCheckerResume(s)
  \/ ServeCompletion(s)

NextConc ==
  \/ \E s \in Slots :
       \/ \E msg \in UserMessages, t \in Clock : Begin(s, "u1", msg, t)
       \/ ServeNode(s)
  \/ ResetUserState("u1")

SpecConc == Init /\ [][NextConc]_vars

----------------------------------------------------------------------------
(* Turns of one user, one after the other, with the oracle answering as    *)
(* its prompts ask and the backend up.                                      *)

NextCoop ==
  \/ \E msg \in UserMessages, t \in Clock : Begin(1, "u1", msg, t)
  \/ ResetUserState("u1")
  \/ ServeNode(1)

SpecCoop == Init /\ [][NextCoop]_vars

----------------------------------------------------------------------------
(* Two users served at the same time, each by its own requests, one after  *)
(* the other per user; the requests and the resets of the two users        *)
(* interleave freely.                                                       *)

UserOf(s) == IF s = 1 THEN "u1" ELSE "u2"

NextIso ==
  \/ \E s \in Slots :
       \/ \E msg \in UserMessages, t \in Clock : Begin(s, UserOf(s), msg, t)
       \/ ServeNode(s)
  \/ \E u \in Sessions : ResetUserState(u)

SpecIso == Init /\ [][NextIso]_vars

----------------------------------------------------------------------------
(* Turns of one user, blank messages included, with any answer of the      *)
(* router's oracle; the oracles of the other nodes answer as prompted and  *)
(* the backend is up.                                                       *)

TextMessages == UserMessages \cup {" "}

NextText ==
  \/ \E msg \in TextMessages, t \in Clock : Begin(1, "u1", msg, t)
  \/ ResetUserState("u1")
  \/ Router(1)
  \/ ServeCampaignCreator(1)
  \/ ServeCampaignCreatorResume(1)
  \/ ServeEventCreator(1)
  \/ ServeEventCreatorResume(1)
  \/ ServeGroupActivator(1)
  \/ ServeGroupActivatorResume(1)
  \/ ServeStatusChecker(1)
  \/ ServeStatusCheckerResume(1)
  \/ ServeCompletion(1)

SpecText == Init /\ [][NextText]_vars

----------------------------------------------------------------------------
(* A session that goes through: the user gives the six fields and          *)
(* confirms (in the first turn, or in the second after a first turn that   *)
(* gave the campaign name only), then asks for the status in every later   *)
(* turn, and nobody resets the thread.  The oracles answer as prompted,    *)
(* the backend calls succeed, and the group has its link from turn         *)
(* LinkReadyTurn on.  The date the user gives is later than every turn of  *)
(* the session, so that the event creation is not refused.  The graph      *)
(* engine runs every node it has scheduled, the backend answers every      *)
(* request and the user keeps writing: weak fairness of the steps.         *)

MaxLiveTurns == MaxTurns + 2
LinkReadyTurn == MaxTurns + 1

\* the times at which the event date is still in the future
LiveClock == {t \in Clock : t < ToUtc(DateText("01/01/2030 15:00"))}

LiveRouterAnswers ==
  IF activated["u1"]
    THEN {RouterAnswer("json", "true", "check_status", "LLM", "checking_status", NoParsed)}
  ELSE {RouterAnswer("json", "true", "confirmation", "LLM", "idle",
                     AllParsed("01/01/2030 15:00", "true"))}
       \cup (IF turns = 1
               THEN {RouterAnswer("json", "true", "event_name", "LLM", "idle",
                                  [NoParsed EXCEPT !.campaign_name = " Verano "])}
               ELSE {})

LiveGroupResult == IF turns >= LinkReadyTurn THEN "https://chat.whatsapp.com/g1" ELSE "nolink"

LivePhrasing(g) ==
  IF g = "nolink" THEN PhrasingAnswer("json", "LLM", "wait", "pending")
  ELSE PhrasingAnswer("json", "LLM", "completed", "completed")

LiveBegin ==
  /\ pc[1] = "idle"
  /\ turns < MaxLiveTurns
  /\ \E msg \in UserMessages, t \in LiveClock : ProcessMessage(1, "u1", msg, t)

LiveRouter == RouterWith(1, LiveRouterAnswers)

LiveStatusChecker == StatusCheckerWith(1, PromptedDecisionAnswers)

LiveStatusCheckerResume ==
  StatusCheckerResumeWith(1, {LiveGroupResult}, {LivePhrasing(LiveGroupResult)})

NextLive ==
  \/ LiveBegin
  \/ LiveRouter
  \/ ServeCampaignCreator(1)
  \/ ServeCampaignCreatorResume(1)
  \/ ServeEventCreator(1)
  \/ ServeEventCreatorResume(1)
  \/ ServeGroupActivator(1)
  \/ ServeGroupActivatorResume(1)
  \/ LiveStatusChecker
  \/ LiveStatusCheckerResume

SpecLive == Init /\ [][NextLive]_vars /\ WF_vars(NextLive)

----------------------------------------------------------------------------
(* The routing step alone: a node has returned a record with any           *)
(* current_step and processing_status (unset and unexpected values         *)
(* included) and the engine follows the edge its decision function names.  *)

GraphNodes ==
  {"router", "campaign_creator", "event_creator", "whatsapp_group_creator",
   "group_status_checker", "completion"}

DecisionSteps == OracleSteps \cup {NONE, ABSENT}

DecisionStatuses ==
  {NONE, ABSENT, "idle", "creating_campaign", "creating_event", "creating_group", "creating",
   "checking_status", "pending", "completed", "error", "out_of_context", "desconocido"}

InitDecide ==
  \E n \in GraphNodes, st \in DecisionSteps, ps \in DecisionStatuses :
    /\ store = [u \in Sessions |-> EmptyRec]
    /\ now = 1
    /\ turns = 1
    /\ pc = [s \in Slots |-> IF s = 1 THEN "routing" ELSE "idle"]
    /\ sid = [s \in Slots |-> "u1"]
    /\ rec = [s \in Slots |->
                IF s = 1 THEN [EmptyRec EXCEPT !.current_step = st, !.processing_status = ps]
                ELSE EmptyRec]
    /\ prev = [s \in Slots |-> EmptyRec]
    /\ nodes = [s \in Slots |-> IF s = 1 THEN <<n>> ELSE <<>>]
    /\ branches = [s \in Slots |-> <<>>]
    /\ calls = [s \in Slots |-> <<>>]
    /\ asks = [s \in Slots |-> <<>>]
    /\ loaded = [s \in Slots |-> EmptyRec]
    /\ activated = [u \in Sessions |-> FALSE]
    /\ awaiting = [s \in Slots |-> Nothing]

Route ==
  /\ pc[1] = "routing"
  /\ pc' = [pc EXCEPT ![1] = NextNode(nodes[1][1], rec[1])]
  /\ UNCHANGED <<store, now, turns, sid, rec, prev, nodes, branches, calls, asks, loaded,
                 activated, awaiting>>

NextDecide == Route

SpecDecide == InitDecide /\ [][NextDecide]_vars

----------------------------------------------------------------------------
(* The group creator alone: whatsapp_group_creator_node applied, for two   *)
(* users, to a state dict with any processing_status and any event_id.     *)
(* In the compiled graph the node is entered from the event creator only,  *)
(* whose edge admits processing_status = creating_group alone; the other   *)
(* values reach the node when it is called on a state dict directly.       *)



InitGuard ==
  \E ps \in [Slots -> {ABSENT, NONE, "idle", "creating_event", "creating_group", "error"}],
     e \in [Slots -> {ABSENT, NONE, "", "e1"}] :
    /\ store = [u \in Sessions |-> EmptyRec]
    /\ now = 1
    /\ turns = 1
    /\ pc = [s \in Slots |-> "whatsapp_group_creator"]
    /\ sid = [s \in Slots |-> UserOf(s)]
    /\ rec = [s \in Slots |->
                [EmptyRec EXCEPT !.processing_status = ps[s], !.event_id = e[s]]]
    /\ prev = [s \in Slots |-> EmptyRec]
    /\ nodes = [s \in Slots |-> <<>>]
    /\ branches = [s \in Slots |-> <<>>]
    /\ calls = [s \in Slots |-> <<>>]
    /\ asks = [s \in Slots |-> <<>>]
    /\ loaded = [s \in Slots |-> EmptyRec]
    /\ activated = [u \in Sessions |-> FALSE]
    /\ awaiting = [s \in Slots |-> Nothing]

NextGuard ==
  \E s \in Slots :
    \/ GroupActivator(s)
    \/ GroupActivatorResume(s)

SpecGuard == InitGuard /\ [][NextGuard]_vars

----------------------------------------------------------------------------
(* Properties *)

\* the branch router_node takes on answer o and the node the graph runs next
RouterOutcome(r, o) ==
  LET out == router_node(r, o)
  IN <<out.branch, NextNode("router", out.rec)>>

\* RouterAnswers is a covering subset of RouterProduct: on every record the
\* router is entered with, each branch and next node that an answer of the
\* product produces is produced by an answer of RouterAnswers
RouterAnswersCover ==
  \A s \in Slots :
    pc[s] = "router" =>
      {RouterOutcome(rec[s], o) : o \in RouterProduct}
        \subseteq {RouterOutcome(rec[s], o) : o \in RouterAnswers}

FixedSteps ==
  ConversationSteps \cup
  {"check_status", "create_event", "create_whatsapp_group", "pending_group",
   "wait", "completed", "error", "out_of_context"}

LastNode(s) == nodes[s][Len(nodes[s])]
LastBranch(s) == branches[s][Len(branches[s])]
Ran(s, n) == \E i \in 1..Len(nodes[s]) : nodes[s][i] = n
Called(s, op) == \E i \in 1..Len(calls[s]) : calls[s][i].op = op
Asked(s, who) == \E i \in 1..Len(asks[s]) : asks[s][i] = who
TurnEnded(s) == pc[s] = "idle" /\ nodes[s] # <<>>
JustRan(s, n) == nodes[s] # <<>> /\ LastNode(s) = n
UrlSet(r) == Truthy(r.whatsapp_group_url)

\* the group creator was entered with a record that fails its precondition
ActivatorGuardCase(s) ==
  /\ JustRan(s, "whatsapp_group_creator")
  /\ prev[s].processing_status # "creating_group" \/ ~Truthy(prev[s].event_id)

\* C1: when the group creator is entered with processing_status other than
\* creating_group or with an empty event_id, the turn makes no activate_event
\* call, the node asks the oracle nothing and it ends with current_step = error.
C1_ActivatorGuard ==
  \A s \in Slots :
    ActivatorGuardCase(s) =>
      /\ ~Called(s, "activate_event")
      /\ ~Asked(s, "whatsapp_group_creator")
      /\ rec[s].current_step = "error"

\* both halves of the precondition: one call with an event id and a status
\* that is not creating_group, one with creating_group and no event id
C1_Witness ==
  /\ ActivatorGuardCase(1) /\ LastBranch(1) = "guard"
  /\ prev[1].processing_status # "creating_group" /\ Truthy(prev[1].event_id)
  /\ ActivatorGuardCase(2) /\ LastBranch(2) = "guard"
  /\ prev[2].processing_status = "creating_group" /\ ~Truthy(prev[2].event_id)

PastDate(d, clock) == ~Unset(d) /\ Parseable(d) /\ ToUtc(DateText(d)) <= clock

\* the event creator attempted the creation with a date at or before now
PastAttemptCase(s) ==
  /\ JustRan(s, "event_creator")
  /\ LastBranch(s) \notin {"failed", "vetoed"}
  /\ PastDate(prev[s].event_date, now)

\* C2: no create_event request is ever issued for an instant at or before the
\* clock of the call, and an attempt with such a date ends in the future-date
\* validation error with no create_event request in the turn.
C2_NoPastEvent ==
  \A s \in Slots :
    /\ \A i \in 1..Len(calls[s]) :
         calls[s][i].op = "create_event" => calls[s][i].date > calls[s][i].at
    /\ PastAttemptCase(s) =>
         /\ LastBranch(s) = "not_future"
         /\ ~Called(s, "create_event")
         /\ rec[s].bot_response = FutureDateText

C2_Witness ==
  \E s \in Slots : PastAttemptCase(s) /\ ToUtc(DateText(prev[s].event_date)) = now

CreationFailures == {"invalid_format", "not_future", "exception"}

\* C3: in a turn where the event creation fails (bad or past date, a record
\* or a timezone that EventInput rejects, backend failure) the event creator
\* is the last node of the turn, it leaves current_step = error and
\* processing_status = error, it does not set event_id, and the group
\* creator does not run (no activate_event call).
C3_FailFast ==
  \A s \in Slots :
    \A i \in 1..Len(nodes[s]) :
      (nodes[s][i] = "event_creator" /\ branches[s][i] \in CreationFailures) =>
        /\ i = Len(nodes[s])
        /\ pc[s] = "idle"
        /\ rec[s].current_step = "error"
        /\ rec[s].processing_status = "error"
        /\ rec[s].event_id = prev[s].event_id
        /\ ~Ran(s, "whatsapp_group_creator")
        /\ ~Called(s, "activate_event")

\* a creation that fails with no request, on a record whose date is in the
\* future, in the turn after one whose creation raised
C3_Witness ==
  \E s \in Slots :
    /\ JustRan(s, "event_creator")
    /\ LastBranch(s) = "exception"
    /\ ~Called(s, "create_event")
    /\ ~Unset(prev[s].event_date) /\ Parseable(prev[s].event_date)
    /\ ~PastDate(prev[s].event_date, now)
    /\ loaded[s].bot_response = "No pude crear el evento."
    /\ Truthy(loaded[s].campaign_id)

\* this step is the completion node of slot s taking the new-campaign path
CompletionResets(s) ==
  /\ pc[s] = "completion"
  /\ branches'[s] = Append(branches[s], "reset")

\* C4: when the completion node takes the new-campaign path, the record it
\* persists has every collected field and every external identifier cleared
\* and current_step = campaign_name, and it is stored for the session of
\* the turn.
C4_ResetClearsRecord ==
  [][\A s \in Slots :
       CompletionResets(s) =>
         LET r == store'[sid[s]]
         IN /\ r = rec'[s]
            /\ r.current_step = "campaign_name"
            /\ Unset(r.campaign_name) /\ Unset(r.event_name) /\ Unset(r.event_date)
            /\ Unset(r.timezone) /\ r.admins = <<>> /\ Unset(r.context)
            /\ Unset(r.campaign_id) /\ Unset(r.event_id)
            /\ Unset(r.pending_event_id) /\ Unset(r.whatsapp_group_url)]_vars

InFlight(s) == pc[s] # "idle"

\* C5: at most one turn is in flight per user: no request loads the record
\* of a user while another request of that user has not ended its turn.
C5_OneTurnInFlight ==
  \A s \in Slots, t \in Slots :
    (s # t /\ InFlight(s) /\ InFlight(t)) => sid[s] # sid[t]

\* C6: at the end of every turn the record has a non-empty bot_response and
\* a current_step of the fixed step set.
C6_TurnResult ==
  \A s \in Slots :
    TurnEnded(s) =>
      /\ Truthy(rec[s].bot_response)
      /\ rec[s].current_step \in FixedSteps

\* C7: after any node execution, processing_status = creating_group implies
\* that event_id is set.
C7_CreatingGroupHasEvent ==
  \A s \in Slots :
    nodes[s] # <<>> =>
      (rec[s].processing_status = "creating_group" => Truthy(rec[s].event_id))

\* C8: after any turn, current_step = completed implies that campaign_id and
\* event_id are both set.
C8_CompletedHasIds ==
  \A s \in Slots :
    TurnEnded(s) =>
      (rec[s].current_step = "completed" =>
         Truthy(rec[s].campaign_id) /\ Truthy(rec[s].event_id))

\* slot s takes this step: its turn starts, its node runs up to its
\* backend call, or its node returns
Acting(s) == pc'[s] # pc[s] \/ nodes'[s] # nodes[s] \/ awaiting'[s] # awaiting[s]

\* a node of slot s returns in this step
NodeReturns(s) == Len(nodes'[s]) = Len(nodes[s]) + 1

\* this step is reset_user_state on the thread of user u
UserReset(u) ==
  /\ store'[u] = InitialState(store[u])
  /\ \A s \in Slots : ~Acting(s)

\* in this step the status checker of slot s returns, its backend query
\* gave a link and the record it returns holds that link
ReadyStatusCheck(s) ==
  /\ pc[s] = "group_status_checker"
  /\ nodes'[s] = Append(nodes[s], "group_status_checker")
  /\ calls'[s] # <<>>
  /\ LET c == calls'[s][Len(calls'[s])]
     IN c.op = "get_group_status" /\ c.ret \in GroupLinks
        /\ c.ret = rec'[s].whatsapp_group_url

\* in this step a node of slot s returns a record whose whatsapp_group_url
\* has a value that the record it was given did not have
UrlWritten(s) ==
  /\ NodeReturns(s)
  /\ rec'[s].whatsapp_group_url # rec[s].whatsapp_group_url
  /\ UrlSet(rec'[s])

\* in this step a turn of slot s starts
TurnStarts(s) == pc[s] = "idle" /\ pc'[s] = "router"

\* C9 as claimed: whatsapp_group_url gets a value only in a status-checker
\* execution whose backend query returned a link, and only for a user for
\* whom an activation by the group creator has succeeded before.
C9_UrlOnlyAfterActivation ==
  [][\A s \in Slots : UrlWritten(s) => ReadyStatusCheck(s) /\ activated[sid[s]]]_vars

\* C9 as amended: a node execution gives whatsapp_group_url a value only
\* when it is the status checker and its backend query returned a link (the
\* value is that link); no other node sets it, the start of a turn takes it
\* as it is stored, and reset_user_state leaves it unset.  No activation
\* need have succeeded for the user.
C9_UrlOnlyFromReadyCheck ==
  [][/\ \A s \in Slots : UrlWritten(s) => ReadyStatusCheck(s)
     /\ \A s \in Slots :
          TurnStarts(s) =>
            rec'[s].whatsapp_group_url = store[sid'[s]].whatsapp_group_url
     /\ \A u \in Sessions : UserReset(u) => ~UrlSet(store'[u])]_vars

C9_Witness ==
  \E s \in Slots :
    /\ JustRan(s, "group_status_checker")
    /\ LastBranch(s) = "ready"
    /\ ~UrlSet(prev[s])
    /\ UrlSet(rec[s])
    /\ ~activated[sid[s]]

\* this step is the completion node of a turn of user u taking the
\* new-campaign path
ResetStep(u) == \E s \in Slots : sid[s] = u /\ CompletionResets(s)

\* C10: a whatsapp_group_url that is set stays set through every step of
\* every later turn of the user; the stored record loses it only in an
\* explicit reset: the new-campaign reset of the completion node, or
\* reset_user_state.
C10_UrlKept ==
  [][\A u \in Sessions :
       (UrlSet(store[u]) /\ ~UrlSet(store'[u])) => ResetStep(u) \/ UserReset(u)]_vars

RouterBranch(s) == branches[s][1]

\* C11: the campaign creator runs in a turn only if the router of that turn
\* saw user_confirms = true with all six required fields filled after the
\* extraction.
C11_SoleTrigger ==
  \A s \in Slots :
    Ran(s, "campaign_creator") => RouterBranch(s) = "confirmed"

PipelineNodes == <<"router", "campaign_creator", "event_creator", "whatsapp_group_creator">>

\* the router of this turn saw the confirmation with every field filled,
\* the event date being later than now
ConfirmedCase(s) ==
  /\ nodes[s] # <<>>
  /\ RouterBranch(s) = "confirmed"
  /\ Parseable(rec[s].event_date)
  /\ ToUtc(DateText(rec[s].event_date)) > now

\* C12: with the oracle answering as prompted and the backend up, a turn in
\* which the user confirms with all six fields filled (and a future date)
\* runs router, campaign_creator, event_creator, whatsapp_group_creator in
\* that order and nothing else, and ends with current_step = pending_group,
\* campaign_id and event_id set and pending_event_id = event_id.
C12_PipelineInOneTurn ==
  \A s \in Slots :
    ConfirmedCase(s) =>
      /\ nodes[s] = SubSeq(PipelineNodes, 1, Len(nodes[s]))
      /\ pc[s] = "idle" =>
           /\ nodes[s] = PipelineNodes
           /\ rec[s].current_step = "pending_group"
           /\ Truthy(rec[s].campaign_id)
           /\ Truthy(rec[s].event_id)
           /\ rec[s].pending_event_id = rec[s].event_id

C12_Witness ==
  \E s \in Slots :
    ConfirmedCase(s) /\ pc[s] = "idle" /\ Called(s, "activate_event")

\* C13: once a Campaign Backend call of a turn has failed, the turn makes
\* no further backend call (the failed call is its last one) and it ends
\* with current_step = error.
C13_BackendFailureTerminal ==
  \A s \in Slots :
    \A i \in 1..Len(calls[s]) :
      calls[s][i].ret = FAIL =>
        /\ i = Len(calls[s])
        /\ pc[s] = "idle" => rec[s].current_step = "error"

\* the record with the answer of the earlier turn taken away
Wiped(r) == [r EXCEPT !.bot_response = ABSENT]

HasAnswer(res) == res.rec.bot_response \notin {NONE, ABSENT}

\* C14: whatever the oracle and the backend do (exception, malformed text,
\* refusal), each node gives back a record in which it has itself written
\* a bot_response (a text, not None), so every record of a turn in progress
\* or ended carries one.
C14_NodesAlwaysAnswer ==
  \A s \in Slots :
    /\ nodes[s] # <<>> => rec[s].bot_response \notin {NONE, ABSENT}
    /\ pc[s] = "router" =>
         \A o \in RouterAnswers : HasAnswer(router_node(Wiped(rec[s]), o))
    /\ pc[s] = "campaign_creator" =>
         \A o \in CampaignAnswers, b \in CampaignResults :
           HasAnswer(campaign_creator_node(Wiped(rec[s]), o, b, now))
    /\ pc[s] = "event_creator" =>
         \A o \in EventAnswers, b \in EventResults :
           HasAnswer(event_creator_node(Wiped(rec[s]), o, b, now))
    /\ pc[s] = "whatsapp_group_creator" =>
         \A o \in WhatsappAnswers, b \in ActivationResults :
           HasAnswer(whatsapp_group_creator_node(Wiped(rec[s]), o, b, now))
    /\ pc[s] = "group_status_checker" =>
         \A d \in DecisionAnswers, g \in GroupResults, p \in PhrasingAnswers :
           HasAnswer(group_status_checker_node(Wiped(rec[s]), d, g, p, now))
    /\ pc[s] = "completion" =>
         \A o \in CompletionAnswers : HasAnswer(completion_node(Wiped(rec[s]), o))

TerminalNodes == {"completion", "group_status_checker", "whatsapp_group_creator"}

\* the longest path of the graph: the four nodes of the creation pipeline
MaxNodesPerTurn == Len(PipelineNodes)

\* where the router's edges lead
RouterSuccessors == {"campaign_creator", "group_status_checker", "completion", END}

\* C15: in every turn the router runs first and once (whatever its oracle
\* answers, it hands the turn to another node or ends it), no node runs
\* twice, at most four nodes run, and after the completion node, the
\* status checker or the group creator the turn is over.
C15_BoundedTurn ==
  \A s \in Slots :
    /\ pc[s] = "router" =>
         /\ nodes[s] = <<>>
         /\ \A o \in RouterProduct :
              NextNode("router", router_node(rec[s], o).rec) \in RouterSuccessors
    /\ nodes[s] # <<>> =>
         /\ nodes[s][1] = "router"
         /\ pc[s] # "router"
         /\ \A i \in 1..Len(nodes[s]), j \in 1..Len(nodes[s]) :
              nodes[s][i] = nodes[s][j] => i = j
         /\ Len(nodes[s]) <= MaxNodesPerTurn
         /\ LastNode(s) \in TerminalNodes => pc[s] = "idle"

C15_Witness ==
  \E s \in Slots :
    /\ TurnEnded(s)
    /\ Len(nodes[s]) = MaxNodesPerTurn
    /\ LastNode(s) = "whatsapp_group_creator"
    /\ LastBranch(s) = "activated"

\* the router has just run, it took the message as in-domain without a
\* complete confirmation, and it left a conversation step
CollectingCase(s) ==
  /\ nodes[s] # <<>>
  /\ RouterBranch(s) \in {"in_domain", "incomplete"}
  /\ Len(nodes[s]) = 1 => rec[s].current_step \in ConversationSteps
  /\ Len(nodes[s]) > 1 => prev[s].current_step \in ConversationSteps /\ Len(nodes[s]) = 2

\* C16: when the router takes the message as in-domain, leaves current_step
\* among the conversation steps and saw no confirmation, the turn ends
\* right after the router: no other node runs and no backend call is made.
C16_CollectingEndsTurn ==
  \A s \in Slots :
    CollectingCase(s) =>
      /\ nodes[s] = <<"router">>
      /\ pc[s] = "idle"
      /\ calls[s] = <<>>

\* the status checker has just run and the backend gave a link
ReadyRun(s) == JustRan(s, "group_status_checker") /\ LastBranch(s) = "ready"

LastCall(s) == calls[s][Len(calls[s])]

\* C17: each status check that gets a link from the backend leaves that
\* link in whatsapp_group_url and current_step = completed, the first time
\* and when it is repeated in the next turn with the same link.
C17_ReadyIdempotent ==
  \A s \in Slots :
    ReadyRun(s) =>
      /\ rec[s].whatsapp_group_url = LastCall(s).ret
      /\ rec[s].current_step = "completed"

IsPrefix(a, b) == Len(a) <= Len(b) /\ SubSeq(b, 1, Len(a)) = a

\* C18: the message log of a user only grows: in every step of every turn
\* of the user and in every reset (the new-campaign reset of the completion
\* node and reset_user_state), the stored log before the step is a prefix
\* of the stored log after it.
C18_LogAppendOnly ==
  [][\A u \in Sessions : IsPrefix(store[u].messages, store'[u].messages)]_vars

\* slot s writes the store in this step: its turn starts or its node returns
Writes(s) == pc'[s] # pc[s] \/ nodes'[s] # nodes[s]

\* C19: a step of a turn of one user (the start of the turn, a node up to
\* its backend call, a node returning, the new-campaign reset) and a
\* reset_user_state of one user change neither the stored record of another
\* user nor the turn in flight of another user; what a turn stores for its
\* own user is the record of its own turn, and a turn starts from the
\* stored record of its own user; so each user's record is the product of
\* that user's turns and resets alone, however the two users interleave.
C19_SessionsIsolated ==
  [][/\ \A s \in Slots :
          Acting(s) =>
            /\ \A u \in Sessions \ {UserOf(s)} :
                 store'[u] = store[u] /\ activated'[u] = activated[u]
            /\ \A t \in Slots \ {s} :
                 rec'[t] = rec[t] /\ pc'[t] = pc[t] /\ nodes'[t] = nodes[t]
            /\ IF Writes(s) THEN store'[UserOf(s)] = rec'[s]
               ELSE store'[UserOf(s)] = store[UserOf(s)]
            /\ nodes'[s] = <<>> => loaded'[s] = store[UserOf(s)]
     /\ \A u \in Sessions :
          (store'[u] # store[u] /\ \A s \in Slots : ~Acting(s)) =>
            /\ UserReset(u)
            /\ \A v \in Sessions \ {u} : store'[v] = store[v]
            /\ rec' = rec /\ activated' = activated]_vars

C19_Witness ==
  /\ InFlight(1)
  /\ nodes[1] # <<>>
  /\ TurnEnded(2)
  /\ store["u1"] = rec[1]
  /\ store["u2"] = rec[2]
  /\ store["u1"].current_step # store["u2"].current_step

CollectedFields ==
  {"campaign_name", "event_name", "event_date", "timezone", "admins", "context"}

ExternalIds == {"campaign_id", "event_id", "pending_event_id", "whatsapp_group_url"}

\* the oracle of the router classified the message as out of domain
OutOfDomainCase(s) == nodes[s] # <<>> /\ RouterBranch(s) = "out_of_context"

\* C20: when the oracle classifies the message as out of domain the router
\* leaves current_step = out_of_context and processing_status =
\* out_of_context, takes the oracle's bot_response as it is (a text or a
\* null; its own default text when the answer has no such key), leaves
\* every collected field and every external identifier as the turn found
\* it, and the turn ends there: no other node, no backend call.
C20_OutOfDomain ==
  \A s \in Slots :
    OutOfDomainCase(s) =>
      /\ nodes[s] = <<"router">>
      /\ pc[s] = "idle"
      /\ calls[s] = <<>>
      /\ rec[s].current_step = "out_of_context"
      /\ rec[s].processing_status = "out_of_context"
      /\ rec[s].bot_response \in {"LLM", NONE, RouterOutOfContextDefault}
      /\ \A f \in CollectedFields \cup ExternalIds : rec[s][f] = loaded[s][f]

C20_Witness ==
  \E s \in Slots :
    /\ OutOfDomainCase(s)
    /\ Truthy(loaded[s].campaign_name)
    /\ Truthy(loaded[s].event_id)
    /\ rec[s].bot_response = "LLM"

\* the router of this turn saw user_confirms = true with a required field
\* still empty after the extraction
IncompleteConfirmCase(s) == nodes[s] # <<>> /\ RouterBranch(s) = "incomplete"

CreationCalls == {"create_campaign", "create_event", "activate_event"}

\* C21: when the oracle reports user_confirms = true while one of the six
\* required fields is empty, the router leaves processing_status = idle and
\* the missing-fields message, and the turn does not enter the creation
\* pipeline: the campaign creator does not run and no creation call is made,
\* whatever next_step the oracle gave.
C21_IncompleteConfirmStaysIdle ==
  \A s \in Slots :
    IncompleteConfirmCase(s) =>
      /\ Len(nodes[s]) = 1 =>
           /\ rec[s].processing_status = "idle"
           /\ rec[s].bot_response = MissingFieldsText
           /\ pc[s] # "campaign_creator"
      /\ ~Ran(s, "campaign_creator")
      /\ \A i \in 1..Len(calls[s]) : calls[s][i].op \notin CreationCalls

\* C22: the campaign creator is reached only with processing_status =
\* creating_campaign: whenever the router hands the turn to the campaign
\* creator, and whenever the campaign creator has run, the record that left
\* the router has processing_status = creating_campaign.
C22_CreatorPrecondition ==
  \A s \in Slots :
    /\ (nodes[s] = <<"router">> /\ pc[s] = "campaign_creator") =>
         rec[s].processing_status = "creating_campaign"
    /\ JustRan(s, "campaign_creator") =>
         prev[s].processing_status = "creating_campaign"

\* the router has just run and its oracle call raised or gave text that is
\* not JSON
RouterOracleFailure(s) ==
  nodes[s] = <<"router">> /\ RouterBranch(s) \in {"failed", "unparseable"}

\* C23: when the oracle call of the router fails or gives unparseable
\* output, the router answers with a fixed apology, current_step is what the
\* turn loaded, and processing_status is idle (an unset status reads as idle).
C23_RouterOracleFailure ==
  \A s \in Slots :
    RouterOracleFailure(s) =>
      /\ rec[s].bot_response \in {RouterApology, RouterNonJsonText}
      /\ rec[s].current_step = loaded[s].current_step
      /\ Get(rec[s], "processing_status", "idle") = "idle"

\* the status checker has just run and asked the backend
StatusLookup(s) ==
  JustRan(s, "group_status_checker") /\ LastBranch(s) # "skipped"

\* C24: what the status checker leaves depends on the backend outcome only,
\* whatever the phrasing oracle answers: a link gives whatsapp_group_url =
\* link, current_step = completed, processing_status = completed; a group
\* without link gives current_step = wait, processing_status = pending; no
\* group and a backend error give current_step = error.
C24_StatusMapping ==
  \A s \in Slots :
    StatusLookup(s) =>
      /\ LastBranch(s) = "ready" =>
           /\ rec[s].whatsapp_group_url = LastCall(s).ret
           /\ rec[s].current_step = "completed"
           /\ rec[s].processing_status = "completed"
      /\ LastBranch(s) = "pending" =>
           /\ rec[s].current_step = "wait"
           /\ rec[s].processing_status = "pending"
      /\ LastBranch(s) \in {"not_found", "error"} =>
           rec[s].current_step = "error"

\* the status checker has just run with no event id on record, or its
\* decision oracle did not ask for a lookup
NoLookupCase(s) ==
  /\ JustRan(s, "group_status_checker")
  /\ \/ ~Truthy(prev[s].event_id) /\ ~Truthy(prev[s].pending_event_id)
     \/ LastBranch(s) = "skipped"

\* C25: when no event id is available, or the decision oracle says the user
\* is not asking for the status (or the decision call fails), the status
\* checker makes no get_group_status call and leaves processing_status =
\* pending.
C25_NoLookupPending ==
  \A s \in Slots :
    NoLookupCase(s) =>
      /\ ~Called(s, "get_group_status")
      /\ rec[s].processing_status = "pending"

\* the group creator has just run, passed its guard and called activate_event
ActivationAttempt(s) ==
  /\ JustRan(s, "whatsapp_group_creator")
  /\ LastBranch(s) \in {"activated", "exception"}

\* C26: whenever the group creator passes its guard and calls
\* activate_event(event_id), the record it returns has pending_event_id =
\* event_id, whether the call succeeded or failed.
C26_PendingIdOnAttempt ==
  \A s \in Slots :
    ActivationAttempt(s) =>
      /\ LastCall(s).op = "activate_event"
      /\ rec[s].pending_event_id = prev[s].event_id

\* C27: whenever the activate_event call of the group creator succeeds, the
\* node ends with current_step = pending_group and processing_status =
\* completed, whatever its oracle answered.
C27_ActivationSuccess ==
  \A s \in Slots :
    (JustRan(s, "whatsapp_group_creator") /\ LastBranch(s) = "activated") =>
      /\ rec[s].current_step = "pending_group"
      /\ rec[s].processing_status = "completed"

\* C28: the campaign creator has two outcomes.  When create_campaign
\* succeeds, campaign_id is the id the backend gave, current_step =
\* create_event and processing_status = creating_event.  When the oracle
\* vetoes the creation, the oracle call fails or the backend call fails,
\* current_step = error, processing_status = error and campaign_id is
\* unchanged.
C28_CampaignOutcomes ==
  \A s \in Slots :
    JustRan(s, "campaign_creator") =>
      /\ LastBranch(s) = "created" =>
           /\ LastCall(s).op = "create_campaign"
           /\ rec[s].campaign_id = LastCall(s).ret
           /\ rec[s].current_step = "create_event"
           /\ rec[s].processing_status = "creating_event"
      /\ LastBranch(s) # "created" =>
           /\ rec[s].current_step = "error"
           /\ rec[s].processing_status = "error"
           /\ rec[s].campaign_id = prev[s].campaign_id

OracleOnlyFields == {"campaign_name", "event_name", "event_date", "timezone", "context"}

\* the answer o is taken as in-domain
InDomainAnswer(o) == o.kind = "json" /\ FlagDefaultTrue(o.related)

CreatingCampaignCase(s) ==
  /\ nodes[s] = <<"router">>
  /\ RouterBranch(s) \in {"confirmed", "incomplete", "in_domain"}
  /\ rec[s].processing_status = "creating_campaign"

\* C30: whenever the router takes the message as in-domain and leaves
\* processing_status = creating_campaign, the node that runs next in the turn
\* is the campaign creator, whatever current_step the oracle gave.
C30_CreatingCampaignRoutes ==
  \A s \in Slots : CreatingCampaignCase(s) => pc[s] = "campaign_creator"

InDomainBranches == {"confirmed", "incomplete", "in_domain"}

\* the router has just run, took the message as in-domain and left
\* current_step = check_status
CheckStatusCase(s) ==
  /\ nodes[s] = <<"router">>
  /\ RouterBranch(s) \in InDomainBranches
  /\ rec[s].current_step = "check_status"

\* C31: whenever the router takes the message as in-domain and leaves
\* current_step = check_status, the status checker is the node that runs
\* next in that turn, whatever the earlier turns of the session left in the
\* record.
C31_CheckStatusRoutes ==
  \A s \in Slots : CheckStatusCase(s) => pc[s] = "group_status_checker"

\* C32: the completion node runs in a turn only if the record that left the
\* router in that turn has current_step = completed: it is handed the turn
\* by the router only, and only on that step, whatever the oracle answers
\* (every answer of the product, on every record the router is entered
\* with).
C32_CompletionPrecondition ==
  \A s \in Slots :
    /\ pc[s] = "router" =>
         \A o \in RouterProduct :
           NextNode("router", router_node(rec[s], o).rec) = "completion" =>
             router_node(rec[s], o).rec.current_step = "completed"
    /\ pc[s] = "completion" =>
         nodes[s] = <<"router">> /\ rec[s].current_step = "completed"
    /\ Ran(s, "completion") =>
         nodes[s] = <<"router", "completion">> /\ prev[s].current_step = "completed"

C32_Witness ==
  \E s \in Slots :
    /\ JustRan(s, "completion")
    /\ LastBranch(s) = "summary"
    /\ RouterBranch(s) = "in_domain"

\* C33: the timezone of every create_event request is the timezone collected
\* in the record with which the event creator was entered.
C33_EventTimezone ==
  \A s \in Slots :
    (JustRan(s, "event_creator") /\ LastBranch(s) \in {"created", "exception"}
       /\ Called(s, "create_event")) =>
      /\ LastCall(s).op = "create_event"
      /\ LastCall(s).tz = prev[s].timezone

\* the admins of a record: no list, or a list with at least one element
AdminsWellFormed(r) == r.admins = <<>> \/ r.admins[1] # <<>>

\* C34: in every record, stored or in flight, the admins are unset or a
\* non-empty list (the router never stores an empty list, whether the value
\* comes from the oracle or from the user's text), and a record whose admins
\* are set loses them only in a step that is a reset: the new-campaign
\* reset of the completion node, or reset_user_state.
C34_AdminsNonEmpty ==
  /\ [](/\ \A u \in Sessions : AdminsWellFormed(store[u])
        /\ \A s \in Slots : AdminsWellFormed(rec[s]))
  /\ [][\A u \in Sessions :
          (TruthyList(store[u].admins) /\ ~TruthyList(store'[u].admins)) =>
            ResetStep(u) \/ UserReset(u)]_vars

\* call j of the turn is a create_event that gave the event id
CreatedEvent(s, j, id) ==
  /\ calls[s][j].op = "create_event"
  /\ calls[s][j].ret = id
  /\ id \notin {FAIL, NONE}

\* C35: activate_event is called in a turn only with an event id returned by
\* a successful create_event call made earlier in that same turn, never with
\* an id left by an earlier turn or given by the user for a status lookup.
C35_ActivateOnlyFreshEvent ==
  \A s \in Slots :
    \A i \in 1..Len(calls[s]) :
      calls[s][i].op = "activate_event" =>
        \E j \in 1..(i - 1) : CreatedEvent(s, j, calls[s][i].id)

\* C36: no duplicate campaign: a turn that starts from a record whose
\* campaign_id is set (a campaign was created in an earlier turn and no reset
\* happened since) makes no create_campaign call.
C36_NoDuplicateCampaign ==
  \A s \in Slots :
    Truthy(loaded[s].campaign_id) => ~Called(s, "create_campaign")

\* the place of a creation call in the pipeline
CallRank(op) ==
  CASE op = "create_campaign" -> 1
    [] op = "create_event" -> 2
    [] op = "activate_event" -> 3
    [] OTHER -> 0

\* C37: within one turn each backend operation is called at most once, the
\* creation calls come in the order create_campaign, create_event,
\* activate_event, create_event is called only after a create_campaign call
\* of the same turn succeeded, and get_group_status is never called in a
\* turn that made a creation or activation call.
C37_CallOrder ==
  \A s \in Slots :
    \A i \in 1..Len(calls[s]) :
      /\ \A j \in 1..(i - 1) :
           /\ calls[s][j].op # calls[s][i].op
           /\ calls[s][i].op \in CreationCalls => CallRank(calls[s][j].op) < CallRank(calls[s][i].op)
           /\ calls[s][i].op = "get_group_status" => calls[s][j].op \notin CreationCalls
      /\ calls[s][i].op = "create_event" =>
           \E j \in 1..(i - 1) :
             calls[s][j].op = "create_campaign" /\ calls[s][j].ret # FAIL

\* C38: in a turn whose router oracle call failed no other node runs: the
\* turn ends right after the router with the router's apology as
\* bot_response and without backend call, whatever current_step and
\* processing_status the earlier turns left.
C38_RouterFailureEndsTurn ==
  \A s \in Slots :
    (nodes[s] # <<>> /\ RouterBranch(s) = "failed") =>
      /\ nodes[s] = <<"router">>
      /\ pc[s] = "idle"
      /\ calls[s] = <<>>
      /\ rec[s].bot_response = RouterApology

\* the stored record of the user is completed and has the group link
GroupDelivered ==
  /\ store["u1"].current_step = "completed"
  /\ UrlSet(store["u1"])

\* C39: with oracles answering as prompted, a backend whose calls succeed
\* and whose group gets its link after a while, and a user who gives the six
\* fields (an event date still in the future), confirms and then keeps
\* asking for the status, the session eventually has current_step =
\* completed with whatsapp_group_url set.
C39_EventuallyDelivered == <>GroupDelivered

C39_Witness ==
  /\ GroupDelivered
  /\ activated["u1"]
  /\ JustRan(1, "group_status_checker")
  /\ loaded[1].current_step = "wait"
  /\ loaded[1].processing_status = "pending"

\* C40: every decision function is total and closed over the edges of its
\* node: on every record, whatever its current_step and processing_status
\* (unset and unexpected values included), router_decision,
\* event_creator_decision, whatsapp_decision, status_decision and
\* completion_decision each give a key of the mapping registered for their
\* node.
C40_DecisionsClosed ==
  \A s \in Slots :
    /\ router_decision(rec[s]) \in RouterEdgeKeys
    /\ event_creator_decision(rec[s]) \in EventCreatorEdgeKeys
    /\ whatsapp_decision(rec[s]) \in WhatsappEdgeKeys
    /\ status_decision(rec[s]) \in StatusEdgeKeys
    /\ completion_decision(rec[s]) \in CompletionEdgeKeys

C40_Witness ==
  /\ nodes[1] = <<"whatsapp_group_creator">>
  /\ rec[1].current_step = "paso_siguiente"
  /\ rec[1].processing_status = "pending"
  /\ pc[1] = END

====
